---- MODULE Spec2Model ----
(***************************************************************************)
(* A model of the EV policy decision engine (PolicyDecisionEngine) and of  *)
(* the grid impact calculator (GridImpactCalculator).                      *)
(*                                                                         *)
(* Python numbers.  The engine computes with Python floats (IEEE-754       *)
(* binary64, round to nearest, ties to even).  Several gradings are        *)
(* decided by a comparison of such a float with a threshold, and           *)
(* 0.1 + 0.2 > 0.3 holds of floats while it fails of decimals, so floats   *)
(* are modelled bit for bit: a float is a record                           *)
(*     [neg |-> BOOLEAN, man |-> natural number, exp |-> integer]          *)
(* of value (-1)^neg * man * 2^exp, with man of exactly 53 bits (or zero). *)
(* A natural number wider than TLC's 32-bit integers is a sequence of      *)
(* 15-bit limbs, least significant first, without leading zero limbs.      *)
(* Infinities, NaN, subnormals and the sign of zero do not occur in the    *)
(* value ranges of the model and are left out.                             *)
(***************************************************************************)
EXTENDS Integers, Sequences, FiniteSets, TLC

(***************************************************************************)
(* Natural numbers of arbitrary width                                      *)
(***************************************************************************)
LimbBits == 15

RECURSIVE Pow2(_)
Pow2(k) ==
    IF k = 0 THEN 1 ELSE 2 * Pow2(k - 1)

Limb == Pow2(LimbBits)

Abs(n) ==
    IF n < 0 THEN 0 - n ELSE n

Max(a, b) ==
    IF a >= b THEN a ELSE b

Min(a, b) ==
    IF a <= b THEN a ELSE b

RECURSIVE BNorm(_)
BNorm(a) ==
    IF a = <<>> THEN <<>>
    ELSE IF a[Len(a)] = 0 THEN BNorm(SubSeq(a, 1, Len(a) - 1))
    ELSE a

RECURSIVE BFromInt(_)
BFromInt(n) ==
    IF n = 0 THEN <<>> ELSE <<n % Limb>> \o BFromInt(n \div Limb)

\* The value of a natural number that fits a TLC integer.
RECURSIVE BToInt(_)
BToInt(a) ==
    IF a = <<>> THEN 0 ELSE a[1] + Limb * BToInt(Tail(a))

RECURSIVE BAddC(_, _, _)
BAddC(a, b, c) ==
    IF a = <<>> /\ b = <<>> THEN (IF c = 0 THEN <<>> ELSE <<c>>)
    ELSE LET x == IF a = <<>> THEN 0 ELSE a[1]
             y == IF b = <<>> THEN 0 ELSE b[1]
             s == x + y + c
         IN  <<s % Limb>> \o BAddC(IF a = <<>> THEN <<>> ELSE Tail(a),
                                   IF b = <<>> THEN <<>> ELSE Tail(b),
                                   s \div Limb)

BAdd(a, b) ==
    BAddC(a, b, 0)

\* a - b for a >= b, with a borrow c.
RECURSIVE BSubC(_, _, _)
BSubC(a, b, c) ==
    IF a = <<>> THEN <<>>
    ELSE LET y == IF b = <<>> THEN 0 ELSE b[1]
             d == a[1] - y - c
         IN  <<IF d < 0 THEN d + Limb ELSE d>>
                 \o BSubC(Tail(a), IF b = <<>> THEN <<>> ELSE Tail(b),
                          IF d < 0 THEN 1 ELSE 0)

BSub(a, b) ==
    BNorm(BSubC(a, b, 0))

\* -1, 0 or 1 as a < b, a = b or a > b; most significant limb first.
RECURSIVE BCmpSame(_, _, _)
BCmpSame(a, b, i) ==
    IF i = 0 THEN 0
    ELSE IF a[i] < b[i] THEN -1
    ELSE IF a[i] > b[i] THEN 1
    ELSE BCmpSame(a, b, i - 1)

BCmp(a, b) ==
    IF Len(a) < Len(b) THEN -1
    ELSE IF Len(a) > Len(b) THEN 1
    ELSE BCmpSame(a, b, Len(a))

\* a * d for one limb d, with a carry c.
RECURSIVE BMulSmallC(_, _, _)
BMulSmallC(a, d, c) ==
    IF a = <<>> THEN (IF c = 0 THEN <<>> ELSE <<c>>)
    ELSE LET p == a[1] * d + c
         IN  <<p % Limb>> \o BMulSmallC(Tail(a), d, p \div Limb)

BMulSmall(a, d) ==
    IF d = 0 THEN <<>> ELSE BMulSmallC(a, d, 0)

RECURSIVE BMul(_, _)
BMul(a, b) ==
    IF b = <<>> \/ a = <<>> THEN <<>>
    ELSE LET rest == BMul(a, Tail(b))
         IN  BAdd(BMulSmall(a, b[1]), IF rest = <<>> THEN <<>> ELSE <<0>> \o rest)

RECURSIVE Zeros(_)
Zeros(n) ==
    IF n = 0 THEN <<>> ELSE <<0>> \o Zeros(n - 1)

\* a * 2^k
BShiftLeft(a, k) ==
    IF a = <<>> THEN <<>>
    ELSE Zeros(k \div LimbBits) \o BMulSmall(a, Pow2(k % LimbBits))

\* [q |-> a div d, r |-> a mod d] for 0 < d <= Limb; a taken from limb i down.
RECURSIVE BDivSmallR(_, _, _, _)
BDivSmallR(a, d, i, r) ==
    IF i = 0 THEN [q |-> <<>>, r |-> r]
    ELSE LET cur  == r * Limb + a[i]
             rest == BDivSmallR(a, d, i - 1, cur % d)
         IN  [q |-> rest.q \o <<cur \div d>>, r |-> rest.r]

BDivNorm(res) ==
    [q |-> BNorm(res.q), r |-> res.r]

BDivSmall(a, d) ==
    BDivNorm(BDivSmallR(a, d, Len(a), 0))

RECURSIVE AllZero(_)
AllZero(a) ==
    a = <<>> \/ (a[1] = 0 /\ AllZero(Tail(a)))

\* [q |-> a div 2^k, sticky |-> a mod 2^k # 0]
BShiftBits(low, res) ==
    [q |-> res.q, sticky |-> (~AllZero(low)) \/ res.r # 0]

BShiftLimbs(a, drop, bits) ==
    BShiftBits(SubSeq(a, 1, drop), BDivSmall(SubSeq(a, drop + 1, Len(a)), Pow2(bits)))

BShiftRight(a, k) ==
    BShiftLimbs(a, Min(k \div LimbBits, Len(a)), k % LimbBits)

RECURSIVE BitLenInt(_)
BitLenInt(n) ==
    IF n = 0 THEN 0 ELSE 1 + BitLenInt(n \div 2)

BBitLen(a) ==
    IF a = <<>> THEN 0 ELSE LimbBits * (Len(a) - 1) + BitLenInt(a[Len(a)])

BIsOdd(a) ==
    a # <<>> /\ a[1] % 2 = 1

\* a div 2^k rounded to nearest, ties to even (k >= 1).
BRoundEven(q, half, sticky) ==
    IF half /\ (sticky \/ BIsOdd(q)) THEN BAdd(q, <<1>>) ELSE q

\* s is a shifted by one bit less than asked: its last bit is the half bit.
BRoundHalf(s) ==
    BRoundEven(BShiftRight(s.q, 1).q, BIsOdd(s.q), s.sticky)

BRoundShift(a, k) ==
    BRoundHalf(BShiftRight(a, k - 1))

(***************************************************************************)
(* Python floats                                                           *)
(***************************************************************************)
ManBits == 53

FZero ==
    [neg |-> FALSE, man |-> <<>>, exp |-> 0]

\* The float nearest to (-1)^neg * n * 2^e: the rounding every float operation ends with.
\* A rounded significand q of 53 bits, or of 54 when the rounding carried.
FNormal(neg, q, e) ==
    IF BBitLen(q) > ManBits
    THEN [neg |-> neg, man |-> BShiftRight(q, 1).q, exp |-> e + 1]
    ELSE [neg |-> neg, man |-> q, exp |-> e]

FRoundLen(neg, n, e, len) ==
    IF n = <<>> THEN FZero
    ELSE IF len <= ManBits
         THEN [neg |-> neg, man |-> BShiftLeft(n, ManBits - len), exp |-> e - (ManBits - len)]
    ELSE FNormal(neg, BRoundShift(n, len - ManBits), e + (len - ManBits))

FRound(neg, n, e) ==
    FRoundLen(neg, n, e, BBitLen(n))

\* float(n) of a Python int: exact, a TLC integer has fewer than 53 bits.
FExact(neg, n, len) ==
    IF n = <<>> THEN FZero
    ELSE [neg |-> neg, man |-> BShiftLeft(n, ManBits - len), exp |-> 0 - (ManBits - len)]

FFromBig(neg, n) ==
    FExact(neg, n, BBitLen(n))

FFromInt(n) ==
    FFromBig(n < 0, BFromInt(Abs(n)))

FNeg(x) ==
    IF x.man = <<>> THEN x ELSE [x EXCEPT !.neg = ~x.neg]

\* -1, 0, 1 as |x| < |y|, |x| = |y|, |x| > |y|
FCmpMag(x, y) ==
    IF x.man = <<>> THEN (IF y.man = <<>> THEN 0 ELSE -1)
    ELSE IF y.man = <<>> THEN 1
    ELSE IF x.exp < y.exp THEN -1
    ELSE IF x.exp > y.exp THEN 1
    ELSE BCmp(x.man, y.man)

\* -1, 0, 1 as x < y, x = y, x > y
FCmp(x, y) ==
    IF x.neg /\ ~y.neg THEN -1
    ELSE IF ~x.neg /\ y.neg THEN 1
    ELSE IF x.neg THEN 0 - FCmpMag(x, y)
    ELSE FCmpMag(x, y)

FGt(x, y) ==
    FCmp(x, y) = 1

FLt(x, y) ==
    FCmp(x, y) = -1

\* x + y
\* The sum of two signed magnitudes mx and my, as a sign and a magnitude.
FAddMag(xneg, yneg, mx, my, c) ==
    [neg |-> IF xneg = yneg \/ c = 1 THEN xneg ELSE yneg,
     n   |-> IF xneg = yneg THEN BAdd(mx, my)
             ELSE IF c = 1 THEN BSub(mx, my)
             ELSE BSub(my, mx)]

FAddAligned(xneg, yneg, mx, my, e) ==
    FRound(FAddMag(xneg, yneg, mx, my, BCmp(mx, my)).neg,
           FAddMag(xneg, yneg, mx, my, BCmp(mx, my)).n, e)

FAddAt(x, y, e) ==
    FAddAligned(x.neg, y.neg, BShiftLeft(x.man, x.exp - e), BShiftLeft(y.man, y.exp - e), e)

FAdd(x, y) ==
    IF x.man = <<>> THEN y
    ELSE IF y.man = <<>> THEN x
    ELSE FAddAt(x, y, Min(x.exp, y.exp))

\* x - y
FSub(x, y) ==
    FAdd(x, FNeg(y))

\* x * y
FMul(x, y) ==
    FRound(x.neg # y.neg, BMul(x.man, y.man), x.exp + y.exp)

\* The divisors of the program are integers below 2^15 (times a power of two):
\* such a float's 53-bit significand is its leading 15 bits followed by zeros.
DivisorShift == ManBits - LimbBits

DivisorLead(y) ==
    BToInt(BShiftRight(y.man, DivisorShift).q)

\* Quotient bits computed beyond the 53 kept; the last one is a sticky bit.
DivGuardBits == 20

\* x / y for y # 0 with a short divisor
\* The quotient with its sticky bit appended.
FDivSticky(res) ==
    BAdd(BShiftLeft(res.q, 1), IF res.r # 0 THEN <<1>> ELSE <<>>)

FDiv(x, y) ==
    IF x.man = <<>> THEN FZero
    ELSE FRound(x.neg # y.neg,
                FDivSticky(BDivSmall(BShiftLeft(x.man, DivGuardBits), DivisorLead(y))),
                x.exp - y.exp - DivisorShift - DivGuardBits - 1)

\* a / b of two Python ints (true division), b # 0
IntDiv(a, b) ==
    FDiv(FFromInt(a), FFromInt(b))

\* The float a decimal literal p/q denotes (0.45 is Lit(45, 100)).
Lit(p, q) ==
    IntDiv(p, q)

RECURSIVE Pow10(_)
Pow10(k) ==
    IF k = 0 THEN 1 ELSE 10 * Pow10(k - 1)

\* |x| * 10^nd rounded to the nearest integer, ties to even: the digits that
\* round(x, nd) and the format f"{x:.0f}" keep.
RoundScaled(n, e) ==
    IF n = <<>> THEN <<>>
    ELSE IF e >= 0 THEN BShiftLeft(n, e)
    ELSE BRoundShift(n, 0 - e)

RoundDigits(x, nd) ==
    RoundScaled(BMulSmall(x.man, Pow10(nd)), x.exp)

\* round(x, nd): the float nearest to the decimal of nd digits nearest to x
PyRound(x, nd) ==
    FDiv(FRound(x.neg, RoundDigits(x, nd), 0), FFromInt(Pow10(nd)))

(***************************************************************************)
(* Python values                                                           *)
(***************************************************************************)
\* dict.get(key, default)
Get(d, key, default) ==
    IF key \in DOMAIN d THEN d[key] ELSE default

\* dict(base, **updates): base with the keys of updates set to their values.
With(base, updates) ==
    [key \in DOMAIN base \cup DOMAIN updates |->
        IF key \in DOMAIN updates THEN updates[key] ELSE base[key]]

\* The dict base without the given keys.
Without(base, keys) ==
    [key \in DOMAIN base \ keys |-> base[key]]

\* The exceptions a call can end with instead of returning.
ZeroDivisionError == [raised |-> "ZeroDivisionError"]

\* The call ended with an exception instead of a result.
Raised(result) == "raised" \in DOMAIN result

None == "None"

\* An f-string: its text with {} for each interpolated value, and the values.
Fmt(text, args) ==
    [text |-> text, args |-> args]

\* The integer that f"{x:,.0f}" prints for a float x.
FormatF0(x) ==
    IF x.neg THEN 0 - BToInt(RoundDigits(x, 0)) ELSE BToInt(RoundDigits(x, 0))

\* needle in hay, for two strings given as sequences of characters
Contains(needle, hay) ==
    \E i \in 1..(Len(hay) - Len(needle) + 1) :
        SubSeq(hay, i, i + Len(needle) - 1) = needle

(***************************************************************************)
(* PolicyDecisionEngine.assess_scenario                                    *)
(***************************************************************************)
\* The divisor when the guard max(..., 1) is left out.
ev_to_charger_divisor_unguarded(scenario_data) ==
    scenario_data["public_chargers"]

\* The divisor of the EV-to-charger ratio.
ev_to_charger_divisor(scenario_data) ==
    Max(scenario_data["public_chargers"], 1)

ev_to_charger(scenario_data) ==
    IntDiv(scenario_data["total_evs"], ev_to_charger_divisor(scenario_data))

\* The pressure levels with the two middle labels exchanged.
infra_pressure_swapped(ratio) ==
    IF FGt(ratio, FFromInt(200)) THEN "Critical"
    ELSE IF FGt(ratio, FFromInt(150)) THEN "Medium-High"
    ELSE IF FGt(ratio, FFromInt(100)) THEN "High"
    ELSE IF FGt(ratio, FFromInt(50)) THEN "Medium"
    ELSE "Low"

infra_pressure(ratio) ==
    IF FGt(ratio, FFromInt(200)) THEN "Critical"
    ELSE IF FGt(ratio, FFromInt(150)) THEN "High"
    ELSE IF FGt(ratio, FFromInt(100)) THEN "Medium-High"
    ELSE IF FGt(ratio, FFromInt(50)) THEN "Medium"
    ELSE "Low"

infra_score(ratio) ==
    IF FGt(ratio, FFromInt(200)) THEN FFromInt(1)
    ELSE IF FGt(ratio, FFromInt(150)) THEN Lit(8, 10)
    ELSE IF FGt(ratio, FFromInt(100)) THEN Lit(6, 10)
    ELSE IF FGt(ratio, FFromInt(50)) THEN Lit(4, 10)
    ELSE Lit(2, 10)

\* The base score when a share equal to a threshold counts as above it.
grid_base_inclusive(scenario_data) ==
    IF scenario_data["peak_charging_share"] >= 70 THEN Lit(4, 10)
    ELSE IF scenario_data["peak_charging_share"] >= 50 THEN Lit(3, 10)
    ELSE IF scenario_data["peak_charging_share"] >= 30 THEN Lit(2, 10)
    ELSE Lit(1, 10)

\* Base score from peak charging
grid_base(scenario_data) ==
    IF scenario_data["peak_charging_share"] > 70 THEN Lit(4, 10)
    ELSE IF scenario_data["peak_charging_share"] > 50 THEN Lit(3, 10)
    ELSE IF scenario_data["peak_charging_share"] > 30 THEN Lit(2, 10)
    ELSE Lit(1, 10)

\* The adjustment when fast charging weighs no more than 20 kW charging.
grid_charger_adjusted_alike(scenario_data, score) ==
    IF Get(scenario_data, "charger_types", "Balanced") \in {"20kW Focus", "Fast-Charge Heavy"}
    THEN FAdd(score, Lit(2, 10))
    ELSE score

\* Adjust based on charger type
grid_charger_adjusted(scenario_data, score) ==
    LET charger_type == Get(scenario_data, "charger_types", "Balanced")
    IN  IF charger_type = "20kW Focus" THEN FAdd(score, Lit(2, 10))
        ELSE IF charger_type = "Fast-Charge Heavy" THEN FAdd(score, Lit(3, 10))
        ELSE score

\* The adjustment when a scenario without v2g_adoption counts as having none.
grid_v2g_adjusted_from_none(scenario_data, score) ==
    FSub(score, FMul(IntDiv(Get(scenario_data, "v2g_adoption", 0), 100), Lit(2, 10)))

\* V2G reduces risk
grid_v2g_adjusted(scenario_data, score) ==
    FSub(score, FMul(IntDiv(Get(scenario_data, "v2g_adoption", 20), 100), Lit(2, 10)))

\* Solar integration reduces risk
grid_solar_adjusted(scenario_data, score) ==
    FSub(score, FMul(IntDiv(Get(scenario_data, "solar_integration", 30), 100), Lit(15, 100)))

grid_score(scenario_data) ==
    grid_solar_adjusted(scenario_data,
        grid_v2g_adjusted(scenario_data,
            grid_charger_adjusted(scenario_data,
                FAdd(FFromInt(0), grid_base(scenario_data)))))

\* The risk level when the size of the score decides, whatever its sign.
grid_risk_by_magnitude(score) ==
    IF FGt(score, Lit(6, 10)) \/ FLt(score, Lit(0 - 6, 10)) THEN "Critical"
    ELSE IF FGt(score, Lit(45, 100)) \/ FLt(score, Lit(0 - 45, 100)) THEN "High"
    ELSE IF FGt(score, Lit(3, 10)) \/ FLt(score, Lit(0 - 3, 10)) THEN "Medium-High"
    ELSE IF FGt(score, Lit(15, 100)) \/ FLt(score, Lit(0 - 15, 100)) THEN "Medium"
    ELSE "Low"

grid_risk(score) ==
    IF FGt(score, Lit(6, 10)) THEN "Critical"
    ELSE IF FGt(score, Lit(45, 100)) THEN "High"
    ELSE IF FGt(score, Lit(3, 10)) THEN "Medium-High"
    ELSE IF FGt(score, Lit(15, 100)) THEN "Medium"
    ELSE "Low"

\* An investment map that scores a value outside the map as conservative.
investment_map_cautious(value) ==
    CASE value = "Moderate" -> Lit(5, 10)
      [] value = "Aggressive" -> Lit(7, 10)
      [] value = "Transformative" -> Lit(9, 10)
      [] OTHER -> Lit(2, 10)

\* investment_map.get(value, 0.5)
investment_map(value) ==
    CASE value = "Conservative" -> Lit(2, 10)
      [] value = "Moderate" -> Lit(5, 10)
      [] value = "Aggressive" -> Lit(7, 10)
      [] value = "Transformative" -> Lit(9, 10)
      [] OTHER -> Lit(5, 10)

\* regulatory_map.get(value, 0.5)
regulatory_map(value) ==
    CASE value = "Traditional" -> Lit(2, 10)
      [] value = "Adaptive" -> Lit(5, 10)
      [] value = "Innovation-Friendly" -> Lit(7, 10)
      [] value = "Sandbox Approach" -> Lit(9, 10)
      [] OTHER -> Lit(5, 10)

financial_score(scenario_data) ==
    FDiv(FAdd(investment_map(Get(scenario_data, "investment_appetite", "Moderate")),
              regulatory_map(Get(scenario_data, "regulatory_flexibility", "Adaptive"))),
         FFromInt(2))

\* The viability when a score equal to a threshold counts as above it.
financial_viability_inclusive(score) ==
    IF FCmp(score, Lit(7, 10)) >= 0 THEN "Excellent"
    ELSE IF FCmp(score, Lit(5, 10)) >= 0 THEN "Good"
    ELSE IF FCmp(score, Lit(3, 10)) >= 0 THEN "Moderate"
    ELSE "Poor"

financial_viability(score) ==
    IF FGt(score, Lit(7, 10)) THEN "Excellent"
    ELSE IF FGt(score, Lit(5, 10)) THEN "Good"
    ELSE IF FGt(score, Lit(3, 10)) THEN "Moderate"
    ELSE "Poor"

\* Two-wheelers generally have higher acceptance
social_two_wheeler_adjusted(scenario_data, score) ==
    IF scenario_data["two_wheeler_share"] > 60 THEN FAdd(score, Lit(2, 10))
    ELSE IF scenario_data["two_wheeler_share"] > 40 THEN FAdd(score, Lit(1, 10))
    ELSE score

social_score(scenario_data) ==
    FAdd(social_two_wheeler_adjusted(scenario_data, Lit(5, 10)),
         FMul(IntDiv(Get(scenario_data, "solar_integration", 30), 100), Lit(15, 100)))

social_acceptance(score) ==
    IF FGt(score, Lit(7, 10)) THEN "High"
    ELSE IF FGt(score, Lit(5, 10)) THEN "Medium"
    ELSE "Low"

\* PolicyDecisionEngine._calculate_urgency
\* max(a, b) of two floats: the first of the largest
FMax(a, b) ==
    IF FGt(b, a) THEN b ELSE a

\* min(a, b) of two floats: the first of the smallest
FMin(a, b) ==
    IF FLt(b, a) THEN b ELSE a

\* An urgency whose thresholds include the scores 0.8, 0.6, 0.4 and 0.2 themselves.
urgency_of_inclusive(max_score) ==
    IF FCmp(max_score, Lit(8, 10)) >= 0 THEN "Immediate"
    ELSE IF FCmp(max_score, Lit(6, 10)) >= 0 THEN "Urgent"
    ELSE IF FCmp(max_score, Lit(4, 10)) >= 0 THEN "High Priority"
    ELSE IF FCmp(max_score, Lit(2, 10)) >= 0 THEN "Medium Priority"
    ELSE "Low Priority"

urgency_of(max_score) ==
    IF FGt(max_score, Lit(8, 10)) THEN "Immediate"
    ELSE IF FGt(max_score, Lit(6, 10)) THEN "Urgent"
    ELSE IF FGt(max_score, Lit(4, 10)) THEN "High Priority"
    ELSE IF FGt(max_score, Lit(2, 10)) THEN "Medium Priority"
    ELSE "Low Priority"

\* The urgency when only the infrastructure score is looked at.
calculate_urgency_of_infrastructure(infra, grid) ==
    urgency_of(infra)

calculate_urgency(infra, grid) ==
    urgency_of(FMax(infra, grid))

\* The scores dict of _calculate_priority, in insertion order.
priority_scores(scenario_data) ==
    << <<"infrastructure",
         FDiv(IntDiv(scenario_data["total_evs"], Max(scenario_data["public_chargers"], 1)),
              FFromInt(200))>>,
       <<"grid", IntDiv(scenario_data["peak_charging_share"], 100)>>,
       <<"finance",
         IF Get(scenario_data, "investment_appetite", None) \in {"Conservative", "Moderate"}
         THEN Lit(5, 10) ELSE Lit(8, 10)>>,
       <<"social", IntDiv(100 - scenario_data["two_wheeler_share"], 100)>> >>

\* max(scores, key=scores.get): the first key whose score no other exceeds
RECURSIVE ArgMax(_, _, _)
ArgMax(scores, i, best) ==
    IF i > Len(scores) THEN scores[best][1]
    ELSE ArgMax(scores, i + 1, IF FGt(scores[i][2], scores[best][2]) THEN i ELSE best)

\* PolicyDecisionEngine._calculate_priority
calculate_priority(scenario_data) ==
    ArgMax(priority_scores(scenario_data), 2, 1)

\* The dict assess_scenario returns, from the scores it has computed.
assessment_of(scenario_data, ratio, infra, grid, fin, soc) ==
    [infrastructure_pressure |-> infra_pressure(ratio),
     infrastructure_score    |-> infra,
     grid_risk               |-> grid_risk(grid),
     grid_score              |-> grid,
     financial_viability     |-> financial_viability(fin),
     financial_score         |-> fin,
     social_acceptance       |-> social_acceptance(soc),
     social_score            |-> soc,
     ev_to_charger_ratio     |-> PyRound(ratio, 1),
     urgency_level           |-> calculate_urgency(infra, grid),
     recommendation_priority |-> calculate_priority(scenario_data)]

assess_ratio(scenario_data, ratio) ==
    assessment_of(scenario_data, ratio, infra_score(ratio), grid_score(scenario_data),
                  financial_score(scenario_data), social_score(scenario_data))

assess_scenario(scenario_data) ==
    IF ev_to_charger_divisor(scenario_data) = 0 THEN ZeroDivisionError
    ELSE assess_ratio(scenario_data, ev_to_charger(scenario_data))

(***************************************************************************)
(* GridImpactCalculator                                                    *)
(***************************************************************************)
base_grid_capacity ==
    FFromInt(230)

peak_base_demand ==
    FFromInt(100)

\* dg_requirements: MW of distributed generation by charger power
dg_requirements(kind) ==
    IF kind = "10kW" THEN Lit(65, 10) ELSE Lit(245, 10)

power(scenario_data) ==
    IF Get(scenario_data, "charger_types", None) = "10kW Focus" THEN 7
    ELSE IF Get(scenario_data, "charger_types", None) = "20kW Focus" THEN 12
    ELSE 10

\* The demand when every charging vehicle draws at once (no diversity factor).
additional_demand_undiversified(scenario_data) ==
    FDiv(FMul(FFromInt(scenario_data["total_evs"] * power(scenario_data)),
              IntDiv(scenario_data["peak_charging_share"], 100)),
         FFromInt(1000))

additional_demand(scenario_data) ==
    FDiv(FDiv(FMul(FFromInt(scenario_data["total_evs"] * power(scenario_data)),
                   IntDiv(scenario_data["peak_charging_share"], 100)),
              FFromInt(1000)),
         FFromInt(2))

total_demand(demand) ==
    FAdd(peak_base_demand, demand)

\* The utilization without the cap.
utilization_uncapped(total) ==
    FMul(FDiv(total, base_grid_capacity), FFromInt(100))

\* Cap utilization at 100% for display
utilization(total) ==
    FMin(FMul(FDiv(total, base_grid_capacity), FFromInt(100)), FFromInt(100))

\* GridImpactCalculator._calculate_dg_requirements
base_dg(charger_type) ==
    IF charger_type = "10kW Focus" THEN dg_requirements("10kW")
    ELSE IF charger_type = "20kW Focus" THEN dg_requirements("20kW")
    ELSE FDiv(FAdd(dg_requirements("10kW"), dg_requirements("20kW")), FFromInt(2))

calculate_dg_requirements(scenario_data, demand) ==
    FMul(base_dg(Get(scenario_data, "charger_types", "Balanced")), FDiv(demand, FFromInt(25)))

\* GridImpactCalculator._determine_grid_risk_level
\* A risk level whose thresholds include the 50 MW and 30 MW themselves.
determine_grid_risk_level_inclusive(demand) ==
    IF FCmp(demand, FFromInt(50)) >= 0 THEN "High"
    ELSE IF FCmp(demand, FFromInt(30)) >= 0 THEN "Medium"
    ELSE "Low"

determine_grid_risk_level(demand) ==
    IF FGt(demand, FFromInt(50)) THEN "High"
    ELSE IF FGt(demand, FFromInt(30)) THEN "Medium"
    ELSE "Low"

\* The overload flag taken from the rounded demand that is reported.
is_grid_overloaded_rounded(total) ==
    FGt(PyRound(total, 2), base_grid_capacity)

is_grid_overloaded(total) ==
    FGt(total, base_grid_capacity)

\* The dict calculate_grid_impact returns, from the demands it has computed.
grid_impact_of(scenario_data, demand, total) ==
    [additional_demand_mw      |-> PyRound(demand, 2),
     total_demand_mw           |-> PyRound(total, 2),
     grid_capacity_utilization |-> PyRound(utilization(total), 1),
     dg_capacity_needed        |-> PyRound(calculate_dg_requirements(scenario_data, demand), 2),
     grid_risk_level           |-> determine_grid_risk_level(demand),
     is_grid_overloaded        |-> is_grid_overloaded(total)]

grid_impact(scenario_data, demand) ==
    grid_impact_of(scenario_data, demand, total_demand(demand))

calculate_grid_impact(scenario_data) ==
    grid_impact(scenario_data, additional_demand(scenario_data))

(***************************************************************************)
(* PolicyDecisionEngine.generate_recommendations                           *)
(***************************************************************************)
\* PolicyDecisionEngine._get_infrastructure_actions
get_infrastructure_actions(scenario_data, pressure_level) ==
    LET actions ==
            IF pressure_level = "Critical"
            THEN <<"Emergency permitting for charging stations",
                   "Temporary mobile charging solutions",
                   "Priority grid connections",
                   "Public land allocation">>
            ELSE IF pressure_level = "High"
            THEN <<"Fast-track approval process",
                   "50% subsidy for public chargers",
                   "EV-ready building codes",
                   "Corridor development">>
            ELSE <<"Standard approval process",
                   "30% subsidy for public chargers",
                   "Planning for future growth",
                   "Public-private partnerships">>
        urban_rural == Get(scenario_data, "urban_rural_split", <<70, 30>>)
    IN  IF urban_rural[1] > 80
        THEN Append(actions, "Focus on high-density urban charging")
        ELSE Append(actions, "Balanced urban-rural deployment")

\* The record of the infrastructure rule: its severity band is chosen by the ratio.
infrastructure_recommendation(scenario_data, assessment) ==
    LET ratio == assessment["ev_to_charger_ratio"]
        evs   == scenario_data["total_evs"]
        band  ==
            IF FGt(ratio, FFromInt(200))
            THEN [title |-> "EMERGENCY: Massive Infrastructure Deployment Required",
                  description |-> Fmt("Critical infrastructure gap with {}:1 EV-to-charger ratio. Requires immediate deployment of {} new charging stations.",
                                      <<ratio, evs \div 50>>),
                  timeframe |-> "3-6 months",
                  priority |-> "Critical",
                  estimated_cost |-> Fmt("${:,.0f}", <<evs * 1500>>)]
            ELSE IF FGt(ratio, FFromInt(150))
            THEN [title |-> "Accelerate Charging Infrastructure Rollout",
                  description |-> Fmt("High pressure with {}:1 ratio. Target deployment of {} new stations.",
                                      <<ratio, evs \div 80>>),
                  timeframe |-> "6-12 months",
                  priority |-> "High",
                  estimated_cost |-> Fmt("${:,.0f}", <<evs * 1200>>)]
            ELSE [title |-> "Expand Charging Network",
                  description |-> Fmt("Moderate pressure with {}:1 ratio. Plan for {} new stations.",
                                      <<ratio, evs \div 100>>),
                  timeframe |-> "12-18 months",
                  priority |-> "Medium",
                  estimated_cost |-> Fmt("${:,.0f}", <<evs * 1000>>)]
    IN  [title |-> band.title,
         description |-> band.description,
         timeframe |-> band.timeframe,
         impact |-> "High",
         category |-> "Infrastructure",
         priority |-> band.priority,
         stakeholders |-> <<"MININFRA", "RURA", "City of Kigali">>,
         estimated_cost |-> band.estimated_cost,
         kpi |-> Fmt("Reduce EV-to-charger ratio to 50:1 (Current: {}:1)", <<ratio>>),
         actions |-> get_infrastructure_actions(scenario_data, assessment["infrastructure_pressure"])]

\* An infrastructure rule that fires for critical pressure only.
infrastructure_rule_critical_only(scenario_data, assessment) ==
    IF assessment["infrastructure_pressure"] \in {"Critical"}
    THEN <<infrastructure_recommendation(scenario_data, assessment)>>
    ELSE <<>>

infrastructure_rule(scenario_data, assessment) ==
    IF assessment["infrastructure_pressure"] \in {"Critical", "High"}
    THEN <<infrastructure_recommendation(scenario_data, assessment)>>
    ELSE <<>>

\* The record of the grid rule: its band is chosen by the peak charging share.
grid_recommendation(scenario_data, assessment) ==
    LET risk       == assessment["grid_risk"]
        peak_share == scenario_data["peak_charging_share"]
        band ==
            IF peak_share > 70
            THEN [title |-> "CRITICAL: Immediate Grid Protection Measures",
                  description |-> "Extreme peak charging ({}%) risks grid failure. Implement emergency measures.",
                  timeframe |-> "1-3 months",
                  mitigation |-> "Mandatory off-peak charging, emergency DG deployment"]
            ELSE IF peak_share > 50
            THEN [title |-> "Implement Smart Grid Solutions",
                  description |-> "High peak charging ({}%) requires advanced grid management.",
                  timeframe |-> "3-9 months",
                  mitigation |-> "Time-of-Use tariffs, smart charging, V2G programs"]
            ELSE [title |-> "Proactive Grid Planning",
                  description |-> "Moderate peak charging ({}%) allows for planned upgrades.",
                  timeframe |-> "9-18 months",
                  mitigation |-> "Grid reinforcement, distributed generation planning"]
        charger_type == Get(scenario_data, "charger_types", "Balanced")
        aggravated   == charger_type = "20kW Focus" \/ charger_type = "Fast-Charge Heavy"
    IN  [title |-> band.title,
         description |-> IF aggravated
                         THEN Fmt(band.description \o " Aggravated by {} strategy.", <<peak_share, charger_type>>)
                         ELSE Fmt(band.description, <<peak_share>>),
         timeframe |-> band.timeframe,
         impact |-> IF peak_share > 50 THEN "High" ELSE "Medium",
         category |-> "Grid Management",
         priority |-> IF risk \in {"Critical", "High"} THEN "High" ELSE "Medium",
         stakeholders |-> <<"REG", "RURA", "MININFRA">>,
         estimated_cost |-> IF peak_share > 50 THEN "$5-15M" ELSE "$2-8M",
         kpi |-> Fmt("Reduce peak charging to <40% (Current: {}%)", <<peak_share>>),
         mitigation_strategy |-> IF aggravated
                                 THEN band.mitigation \o ", consider charger power management"
                                 ELSE band.mitigation]

grid_rule(scenario_data, assessment) ==
    IF assessment["grid_risk"] \in {"Critical", "High", "Medium-High"}
    THEN <<grid_recommendation(scenario_data, assessment)>>
    ELSE <<>>

\* The record of the two-wheeler rule, which every call appends.
two_wheeler_rule(scenario_data) ==
    LET two_wheeler_share == scenario_data["two_wheeler_share"]
        band ==
            IF two_wheeler_share > 60
            THEN [title |-> "E-Moto Priority Strategy",
                  description |-> "Dominant two-wheeler share ({}%) requires specialized infrastructure focus.",
                  actions |-> <<"Deploy high-density e-moto charging hubs",
                                "Standardize battery swapping systems",
                                "Develop e-moto dedicated lanes">>]
            ELSE IF two_wheeler_share > 40
            THEN [title |-> "Integrated Two-Wheeler Planning",
                  description |-> "Significant two-wheeler share ({}%) needs balanced approach.",
                  actions |-> <<"Mixed-use charging stations",
                                "E-moto purchase subsidies",
                                "Operator training programs">>]
            ELSE [title |-> "Mainstream EV Focus",
                  description |-> "Lower two-wheeler share ({}%) allows focus on car infrastructure.",
                  actions |-> <<"Standard car charging networks",
                                "Public charging corridors",
                                "Fleet electrification programs">>]
    IN  << [title |-> band.title,
            description |-> Fmt(band.description, <<two_wheeler_share>>),
            timeframe |-> "6-24 months",
            impact |-> IF two_wheeler_share > 60 THEN "High" ELSE "Medium",
            category |-> "Fleet Strategy",
            priority |-> IF two_wheeler_share > 60 THEN "High" ELSE "Medium",
            stakeholders |-> <<"City of Kigali", "RDB", "Private Sector">>,
            estimated_cost |->
                Fmt("${:,.0f}",
                    <<FormatF0(FMul(FFromInt(scenario_data["total_evs"] * 200),
                                    IntDiv(two_wheeler_share, 100)))>>),
            kpi |-> Fmt("Optimize infrastructure for {}% two-wheeler fleet", <<two_wheeler_share>>),
            actions |-> band.actions] >>

policy_priority_rule(scenario_data) ==
    LET policy_priority == Get(scenario_data, "policy_priority", "Balanced Growth")
        solar == Get(scenario_data, "solar_integration", 30)
    IN  IF policy_priority = "Climate Impact Maximization"
        THEN << [title |-> "Renewable Charging Strategy",
                 description |-> Fmt("Align with climate goals. Current solar integration: {}%.", <<solar>>),
                 timeframe |-> "12-36 months",
                 impact |-> IF solar < 50 THEN "High" ELSE "Medium",
                 category |-> "Climate & Environment",
                 priority |-> IF solar < 30 THEN "High" ELSE "Medium",
                 stakeholders |-> <<"REMA", "REG", "MININFRA">>,
                 estimated_cost |-> Fmt("${:,.0f}", <<scenario_data["total_evs"] * 300>>),
                 kpi |-> Fmt("Achieve {}% renewable charging by 2030", <<Max(50, solar + 20)>>),
                 actions |-> IF solar < 30
                             THEN <<"Solar mandate for new stations", "Renewable energy credits", "Green financing">>
                             ELSE <<"Scale successful models", "Grid integration of renewables", "Carbon tracking">>] >>
        ELSE IF policy_priority = "Grid Stability & Resilience"
        THEN << [title |-> "Grid Resilience Framework",
                 description |-> "Prioritize grid stability in EV integration planning.",
                 timeframe |-> "6-18 months",
                 impact |-> "High",
                 category |-> "Grid Infrastructure",
                 priority |-> "High",
                 stakeholders |-> <<"REG", "RURA", "MININFRA">>,
                 estimated_cost |-> "$10-25M",
                 kpi |-> "Maintain grid stability at 100,000+ EVs",
                 actions |-> <<"Advanced grid monitoring", "Resilience standards", "Backup power systems">>] >>
        ELSE <<>>

\* A financial rule that looks at the investment appetite only.
financial_rule_by_appetite(scenario_data) ==
    LET investment_appetite == Get(scenario_data, "investment_appetite", "Moderate")
        regulatory_flexibility == Get(scenario_data, "regulatory_flexibility", "Adaptive")
    IN  IF investment_appetite \in {"Aggressive", "Transformative"}
        THEN << [title |-> "Advanced PPP Framework",
                 description |-> Fmt("High investment appetite ({}) with flexible regulation ({}) enables innovative partnerships.",
                                     <<investment_appetite, regulatory_flexibility>>),
                 timeframe |-> "6-24 months",
                 impact |-> "High",
                 category |-> "Financial",
                 priority |-> "High",
                 stakeholders |-> <<"MINECOFIN", "RDB", "Private Sector">>,
                 estimated_cost |-> "PPP (Public: $10-50M, Private: 3-5x leverage)",
                 kpi |-> Fmt("Attract ${:,.0f} private investment", <<scenario_data["total_evs"] * 100>>),
                 roi |-> "12-20%"] >>
        ELSE <<>>

financial_rule(scenario_data) ==
    LET investment_appetite == Get(scenario_data, "investment_appetite", "Moderate")
        regulatory_flexibility == Get(scenario_data, "regulatory_flexibility", "Adaptive")
    IN  IF investment_appetite \in {"Aggressive", "Transformative"}
           /\ regulatory_flexibility \in {"Innovation-Friendly", "Sandbox Approach"}
        THEN << [title |-> "Advanced PPP Framework",
                 description |-> Fmt("High investment appetite ({}) with flexible regulation ({}) enables innovative partnerships.",
                                     <<investment_appetite, regulatory_flexibility>>),
                 timeframe |-> "6-24 months",
                 impact |-> "High",
                 category |-> "Financial",
                 priority |-> "High",
                 stakeholders |-> <<"MINECOFIN", "RDB", "Private Sector">>,
                 estimated_cost |-> "PPP (Public: $10-50M, Private: 3-5x leverage)",
                 kpi |-> Fmt("Attract ${:,.0f} private investment", <<scenario_data["total_evs"] * 100>>),
                 roi |-> "12-20%"] >>
        ELSE <<>>

\* The names the stakeholder checks look for, as sequences of characters.
Government == <<"G", "o", "v", "e", "r", "n", "m", "e", "n", "t">>

MININFRA == <<"M", "I", "N", "I", "N", "F", "R", "A">>

REG == <<"R", "E", "G">>

Utility == <<"U", "t", "i", "l", "i", "t", "y">>

PrivateInvestor == <<"P", "r", "i", "v", "a", "t", "e", " ", "I", "n", "v", "e", "s", "t", "o", "r">>

Developer == <<"D", "e", "v", "e", "l", "o", "p", "e", "r">>

Kigali == <<"K", "i", "g", "a", "l", "i">>

\* PolicyDecisionEngine._get_stakeholder_recommendations
get_stakeholder_recommendations(stakeholder, scenario_data, assessment) ==
    (IF Contains(Government, stakeholder) \/ Contains(MININFRA, stakeholder)
     THEN << [title |-> "Policy Coordination Framework",
              description |-> "Coordinate across ministries and agencies for coherent EV policy.",
              category |-> "Governance",
              priority |-> "High",
              timeframe |-> "3-12 months"] >>
     ELSE <<>>)
    \o
    (IF Contains(REG, stakeholder) \/ Contains(Utility, stakeholder)
     THEN << [title |-> "Grid Modernization Plan",
              description |-> "Upgrade distribution network for EV integration.",
              category |-> "Grid Infrastructure",
              priority |-> "High",
              timeframe |-> "12-36 months"] >>
     ELSE <<>>)
    \o
    (IF Contains(PrivateInvestor, stakeholder) \/ Contains(Developer, stakeholder)
     THEN << [title |-> "Investment Readiness Assessment",
              description |-> "Evaluate market opportunities and regulatory environment.",
              category |-> "Financial",
              priority |-> "Medium",
              timeframe |-> "1-3 months",
              roi |-> "15-25%"] >>
     ELSE <<>>)
    \o
    (IF Contains(Kigali, stakeholder)
     THEN << [title |-> "Urban Mobility Integration",
              description |-> "Integrate EV charging with urban planning and public transport.",
              category |-> "Urban Planning",
              priority |-> "Medium",
              timeframe |-> "6-24 months"] >>
     ELSE <<>>)

\* The urgency rule when its record is built without a kpi.
urgency_rule_without_kpi(assessment) ==
    LET urgency == Get(assessment, "urgency_level", "Medium Priority")
    IN  IF urgency \in {"Immediate", "Urgent"}
        THEN << [title |-> "Rapid Response Team",
                 description |-> Fmt("{} situation detected. Establish cross-functional team.", <<urgency>>),
                 timeframe |-> "1 month",
                 impact |-> "High",
                 category |-> "Governance",
                 priority |-> "Critical",
                 stakeholders |-> <<"All relevant agencies">>,
                 estimated_cost |-> "Minimal",
                 actions |-> <<"Immediate stakeholder coordination", "Emergency funding access", "Fast-track approvals">>] >>
        ELSE <<>>

urgency_rule(assessment) ==
    LET urgency == Get(assessment, "urgency_level", "Medium Priority")
    IN  IF urgency \in {"Immediate", "Urgent"}
        THEN << [title |-> "Rapid Response Team",
                 description |-> Fmt("{} situation detected. Establish cross-functional team.", <<urgency>>),
                 timeframe |-> "1 month",
                 impact |-> "High",
                 category |-> "Governance",
                 priority |-> "Critical",
                 stakeholders |-> <<"All relevant agencies">>,
                 estimated_cost |-> "Minimal",
                 kpi |-> "Weekly progress monitoring",
                 actions |-> <<"Immediate stakeholder coordination", "Emergency funding access", "Fast-track approvals">>] >>
        ELSE <<>>

\* priority_order.get(x.get('priority', 'Low'), 0)
priority_order(rec) ==
    LET priority == Get(rec, "priority", "Low")
    IN  CASE priority = "Critical" -> 4
          [] priority = "High" -> 3
          [] priority = "Medium" -> 2
          [] priority = "Low" -> 1
          [] OTHER -> 0

\* The step of a sort that is not stable: rec goes before the records of its rank.
RECURSIVE InsertBeforeEqual(_, _)
InsertBeforeEqual(sorted, rec) ==
    IF sorted = <<>> THEN <<rec>>
    ELSE IF priority_order(Head(sorted)) > priority_order(rec)
         THEN <<Head(sorted)>> \o InsertBeforeEqual(Tail(sorted), rec)
    ELSE <<rec>> \o sorted

\* One step of the stable sort: rec goes behind every record that does not rank below it.
RECURSIVE InsertByPriority(_, _)
InsertByPriority(sorted, rec) ==
    IF sorted = <<>> THEN <<rec>>
    ELSE IF priority_order(Head(sorted)) >= priority_order(rec)
         THEN <<Head(sorted)>> \o InsertByPriority(Tail(sorted), rec)
    ELSE <<rec>> \o sorted

\* recommendations.sort(key=..., reverse=True): stable, highest rank first
RECURSIVE SortByPriority(_, _)
SortByPriority(recs, sorted) ==
    IF recs = <<>> THEN sorted
    ELSE SortByPriority(Tail(recs), InsertByPriority(sorted, Head(recs)))

\* The list when the sort is left out.
unsorted_recommendations(recs) ==
    recs

sort_recommendations(recs) ==
    SortByPriority(recs, <<>>)

\* The records in the order the rules append them.
appended_recommendations(scenario_data, assessment) ==
    infrastructure_rule(scenario_data, assessment)
        \o grid_rule(scenario_data, assessment)
        \o two_wheeler_rule(scenario_data)
        \o policy_priority_rule(scenario_data)
        \o financial_rule(scenario_data)
        \o get_stakeholder_recommendations(Get(scenario_data, "stakeholder", <<>>),
                                           scenario_data, assessment)
        \o urgency_rule(assessment)

generate_recommendations(scenario_data, assessment) ==
    sort_recommendations(appended_recommendations(scenario_data, assessment))

(***************************************************************************)
(* PolicyDecisionEngine.get_baseline_scenario, compare_scenarios           *)
(***************************************************************************)
NationalGovernment ==
    <<"N", "a", "t", "i", "o", "n", "a", "l", " ">> \o Government \o <<" ", "/", " ">> \o MININFRA

get_baseline_scenario ==
    [total_evs |-> 12500,
     public_chargers |-> 156,
     ev_growth |-> 20,
     two_wheeler_share |-> 52,
     peak_charging_share |-> 50,
     policy_priority |-> "Balanced Growth",
     investment_appetite |-> "Moderate",
     regulatory_flexibility |-> "Adaptive",
     stakeholder |-> NationalGovernment,
     charger_types |-> "Balanced",
     solar_integration |-> 15,
     v2g_adoption |-> 5,
     fleet_mix |-> <<"E-Motos", "Taxis">>]

\* The differences list when a fleet difference of 10000 already counts.
differences_from_threshold(scenario1, scenario2, assessment1, assessment2) ==
    (IF Abs(scenario1["total_evs"] - scenario2["total_evs"]) >= 10000
     THEN <<Fmt("EV fleet difference: {:,} vehicles",
                <<Abs(scenario1["total_evs"] - scenario2["total_evs"])>>)>>
     ELSE <<>>)
    \o
    (IF assessment1["infrastructure_pressure"] # assessment2["infrastructure_pressure"]
     THEN <<Fmt("Infrastructure pressure: {} vs {}",
                <<assessment1["infrastructure_pressure"], assessment2["infrastructure_pressure"]>>)>>
     ELSE <<>>)
    \o
    (IF assessment1["grid_risk"] # assessment2["grid_risk"]
     THEN <<Fmt("Grid risk: {} vs {}", <<assessment1["grid_risk"], assessment2["grid_risk"]>>)>>
     ELSE <<>>)
    \o
    (IF assessment1["financial_viability"] # assessment2["financial_viability"]
     THEN <<Fmt("Financial viability: {} vs {}",
                <<assessment1["financial_viability"], assessment2["financial_viability"]>>)>>
     ELSE <<>>)

\* The differences list of compare_scenarios, for the two assessments.
differences(scenario1, scenario2, assessment1, assessment2) ==
    (IF Abs(scenario1["total_evs"] - scenario2["total_evs"]) > 10000
     THEN <<Fmt("EV fleet difference: {:,} vehicles",
                <<Abs(scenario1["total_evs"] - scenario2["total_evs"])>>)>>
     ELSE <<>>)
    \o
    (IF assessment1["infrastructure_pressure"] # assessment2["infrastructure_pressure"]
     THEN <<Fmt("Infrastructure pressure: {} vs {}",
                <<assessment1["infrastructure_pressure"], assessment2["infrastructure_pressure"]>>)>>
     ELSE <<>>)
    \o
    (IF assessment1["grid_risk"] # assessment2["grid_risk"]
     THEN <<Fmt("Grid risk: {} vs {}", <<assessment1["grid_risk"], assessment2["grid_risk"]>>)>>
     ELSE <<>>)
    \o
    (IF assessment1["financial_viability"] # assessment2["financial_viability"]
     THEN <<Fmt("Financial viability: {} vs {}",
                <<assessment1["financial_viability"], assessment2["financial_viability"]>>)>>
     ELSE <<>>)

\* The dict compare_scenarios returns, from the two assessments.
comparison_of(scenario1, scenario2, assessment1, assessment2) ==
    IF Raised(assessment1) \/ Raised(assessment2) THEN ZeroDivisionError
    ELSE [scenario1_assessment |-> assessment1,
          scenario2_assessment |-> assessment2,
          differences |-> differences(scenario1, scenario2, assessment1, assessment2),
          recommendation_differences |->
              Len(generate_recommendations(scenario1, assessment1))
                  - Len(generate_recommendations(scenario2, assessment2))]

compare_scenarios(scenario1, scenario2) ==
    comparison_of(scenario1, scenario2, assess_scenario(scenario1), assess_scenario(scenario2))

(***************************************************************************)
(* PolicyDecisionEngine.generate_roadmap                                   *)
(***************************************************************************)
\* today + timedelta(days=days), for a datetime given as a reading of the
\* clock and the days added to it
plus_days(today, days) ==
    [today EXCEPT !.days = @ + days]

\* The roadmap list, for the durations the urgency has chosen.
roadmap_phases(stakeholder, today, phase1_duration, phase2_start, phase2_duration) ==
    << [Phase |-> "Phase 1: Foundation",
        Tasks |-> "Regulatory framework, Pilot programs, Capacity building",
        Start |-> today,
        End |-> plus_days(today, phase1_duration),
        Responsible |-> stakeholder,
        Budget |-> "$5-10M",
        Priority |-> "High"],
       [Phase |-> "Phase 2: Scaling",
        Tasks |-> "Infrastructure deployment, Incentive rollout, Grid upgrades",
        Start |-> plus_days(today, phase2_start),
        End |-> plus_days(today, phase2_start + phase2_duration),
        Responsible |-> "Multiple stakeholders",
        Budget |-> "$20-50M",
        Priority |-> "Medium"],
       [Phase |-> "Phase 3: Optimization",
        Tasks |-> "Smart charging, V2G implementation, System integration",
        Start |-> plus_days(today, phase2_start + phase2_duration + 1),
        End |-> plus_days(today, 1080),
        Responsible |-> "REG + Private sector",
        Budget |-> "$30-70M",
        Priority |-> "Low"] >>

\* A roadmap that shortens the phases for the Immediate level only.
roadmap_for_immediate_only(assessment, stakeholder, today) ==
    IF Raised(assessment) THEN ZeroDivisionError
    ELSE IF Get(assessment, "urgency_level", "Medium Priority") \in {"Immediate"}
    THEN roadmap_phases(stakeholder, today, 90, 91, 270)
    ELSE roadmap_phases(stakeholder, today, 180, 181, 360)

\* A roadmap whose second phase starts on the day the first one ends.
roadmap_for_adjoining(assessment, stakeholder, today) ==
    IF Raised(assessment) THEN ZeroDivisionError
    ELSE IF Get(assessment, "urgency_level", "Medium Priority") \in {"Immediate", "Urgent"}
    THEN roadmap_phases(stakeholder, today, 90, 90, 270)
    ELSE roadmap_phases(stakeholder, today, 180, 180, 360)

\* Adjust roadmap based on urgency
roadmap_for(assessment, stakeholder, today) ==
    IF Raised(assessment) THEN ZeroDivisionError
    ELSE IF Get(assessment, "urgency_level", "Medium Priority") \in {"Immediate", "Urgent"}
    THEN roadmap_phases(stakeholder, today, 90, 91, 270)
    ELSE roadmap_phases(stakeholder, today, 180, 181, 360)

generate_roadmap(scenario_data, stakeholder, today) ==
    roadmap_for(assess_scenario(scenario_data), stakeholder, today)

(***************************************************************************)
(* The program state.  app.py builds one PolicyDecisionEngine and one      *)
(* GridImpactCalculator (app.py:89-90) and, on every run of the script,    *)
(* reads scenario_data from the widgets and calls the operations on it.    *)
(***************************************************************************)
VARIABLES
    scenario_data,      \* the caller's current scenario dict
    assessed_data,      \* the scenario the held assessment was computed from
    assessment,         \* the caller's result of assess_scenario
    grid_analysis,      \* the caller's result of calculate_grid_impact
    recommendations,    \* the caller's result of generate_recommendations
    roadmap,            \* the caller's result of generate_roadmap
    compared_data,      \* the second argument of the held comparison
    comparison,         \* the caller's result of compare_scenarios
    returned,           \* the operations whose result the caller holds
    scenarios,          \* PolicyDecisionEngine.scenarios
    saved_file,         \* content of saved_scenarios.json
    clock,              \* number of timestamps datetime.now() has handed out
    earlier             \* results of a completed run of the script before any save

caller == <<scenario_data, assessed_data, assessment, grid_analysis,
            recommendations, roadmap, compared_data, comparison, returned>>

engine == <<scenarios, saved_file, clock>>

vars == <<caller, engine, earlier>>

\* The value of a variable that holds no result.
NoResult == [none |-> TRUE]

\* saved_scenarios.json when there is no such file, and after a write that
\* failed part-way (open(..., 'w') truncates, json.dump writes in pieces).
NoFile == [file |-> "absent"]

PartialFile == [file |-> "partial"]

\* saved_scenarios.json after json.dump has written the whole list.
WrittenFile(list) == [file |-> "written", document |-> list]

\* The worked scenario of the documentation with a fast-charge heavy fleet.
ScenarioA ==
    [total_evs |-> 260000,
     public_chargers |-> 300,
     peak_charging_share |-> 80,
     charger_types |-> "Fast-Charge Heavy",
     v2g_adoption |-> 0,
     solar_integration |-> 0,
     two_wheeler_share |-> 50,
     investment_appetite |-> "Conservative",
     regulatory_flexibility |-> "Traditional"]

ScenarioB == get_baseline_scenario

\* State after the module level of app.py has run: the engine is built
\* (scenarios = []), the widgets hold a scenario of Scenarios.
InitOver(Scenarios) ==
    /\ scenario_data \in Scenarios
    /\ assessed_data = NoResult
    /\ assessment = NoResult
    /\ grid_analysis = NoResult
    /\ recommendations = <<>>
    /\ roadmap = NoResult
    /\ compared_data = NoResult
    /\ comparison = NoResult
    /\ returned = {}
    /\ scenarios = <<>>
    /\ saved_file = NoFile
    /\ clock = 0
    /\ earlier = NoResult

\* assessment = decision_engine.assess_scenario(data)
AssessFor(data) ==
    /\ "assess_scenario" \notin returned
    /\ assessment' = assess_scenario(data)
    /\ assessed_data' = data
    /\ returned' = returned \cup {"assess_scenario"}
    /\ UNCHANGED <<scenario_data, grid_analysis, recommendations, roadmap,
                   compared_data, comparison, engine, earlier>>

\* An engine that answers with the assessment of the scenario it saved last.
AssessFromSaved ==
    /\ "assess_scenario" \notin returned
    /\ assessment' = IF scenarios # <<>> THEN scenarios[Len(scenarios)]["assessment"]
                      ELSE assess_scenario(scenario_data)
    /\ assessed_data' = scenario_data
    /\ returned' = returned \cup {"assess_scenario"}
    /\ UNCHANGED <<scenario_data, grid_analysis, recommendations, roadmap,
                   compared_data, comparison, engine, earlier>>

AssessScenario == AssessFor(scenario_data)

\* grid_analysis = grid_calculator.calculate_grid_impact(scenario_data)
CalculateGridImpact ==
    /\ "calculate_grid_impact" \notin returned
    /\ grid_analysis' = calculate_grid_impact(scenario_data)
    /\ returned' = returned \cup {"calculate_grid_impact"}
    /\ UNCHANGED <<scenario_data, assessed_data, assessment, recommendations, roadmap,
                   compared_data, comparison, engine, earlier>>

\* An engine whose generate_recommendations notes the length of its list in
\* the assessment dict it was handed.
GenerateRecommendationsNoting ==
    /\ "assess_scenario" \in returned
    /\ ~Raised(assessment)
    /\ "generate_recommendations" \notin returned
    /\ recommendations' = generate_recommendations(scenario_data, assessment)
    /\ assessment' = With(assessment, [recommendation_count |-> Len(recommendations')])
    /\ returned' = returned \cup {"generate_recommendations"}
    /\ UNCHANGED <<scenario_data, assessed_data, grid_analysis, roadmap,
                   compared_data, comparison, engine, earlier>>

\* recommendations = decision_engine.generate_recommendations(scenario_data, assessment)
GenerateRecommendations ==
    /\ "assess_scenario" \in returned
    /\ ~Raised(assessment)
    /\ "generate_recommendations" \notin returned
    /\ recommendations' = generate_recommendations(scenario_data, assessment)
    /\ returned' = returned \cup {"generate_recommendations"}
    /\ UNCHANGED <<scenario_data, assessed_data, assessment, grid_analysis, roadmap,
                   compared_data, comparison, engine, earlier>>

\* comparison = decision_engine.compare_scenarios(scenario_data, other)
CompareWith(other) ==
    /\ "compare_scenarios" \notin returned
    /\ comparison' = compare_scenarios(scenario_data, other)
    /\ compared_data' = other
    /\ returned' = returned \cup {"compare_scenarios"}
    /\ UNCHANGED <<scenario_data, assessed_data, assessment, grid_analysis,
                   recommendations, roadmap, engine, earlier>>

(***************************************************************************)
(* PolicyDecisionEngine.__init__, save_scenario and the script's reruns    *)
(***************************************************************************)
\* Bound on the number of save_scenario calls of a behaviour.
MaxClock == 2

ScenarioNames == {"Scenario 1"}

\* The scenarios the widgets are set to in the engine's specification.
EngineScenarios == {ScenarioA, ScenarioB}

\* datetime.now().isoformat() of the tick-th reading of the clock.
isoformat(tick) == [isoformat |-> tick]

\* The bundle save_scenario builds (decision_engine.py:546-552).
save_bundle(name, tick, data, assessed) ==
    [name |-> name,
     timestamp |-> isoformat(tick),
     data |-> data,
     assessment |-> assessed,
     recommendations |-> generate_recommendations(data, assessed)]

\* A save_scenario that takes the bundle back when the write fails.
SaveScenarioOrNothing ==
    /\ "assess_scenario" \in returned
    /\ ~Raised(assessment)
    /\ clock < MaxClock
    /\ \E name \in ScenarioNames, outcome \in {"written", "open failed", "dump failed"} :
          /\ scenarios' = IF outcome = "written"
                          THEN Append(scenarios,
                                      save_bundle(name, clock + 1, scenario_data, assessment))
                          ELSE scenarios
          /\ saved_file' = CASE outcome = "written" -> WrittenFile(scenarios')
                             [] outcome = "open failed" -> saved_file
                             [] OTHER -> PartialFile
    /\ clock' = clock + 1
    /\ UNCHANGED <<caller, earlier>>

\* decision_engine.save_scenario(name, scenario_data, assessment): the bundle
\* is appended to self.scenarios, then the whole list is written over the
\* file; a failing open or dump is swallowed by the bare except.
SaveScenario ==
    /\ "assess_scenario" \in returned
    /\ ~Raised(assessment)
    /\ clock < MaxClock
    /\ \E name \in ScenarioNames :
          scenarios' = Append(scenarios,
                              save_bundle(name, clock + 1, scenario_data, assessment))
    /\ \E outcome \in {"written", "open failed", "dump failed"} :
          saved_file' = CASE outcome = "written" -> WrittenFile(scenarios')
                          [] outcome = "open failed" -> saved_file
                          [] OTHER -> PartialFile
    /\ clock' = clock + 1
    /\ UNCHANGED <<caller, earlier>>

\* roadmap_data = decision_engine.generate_roadmap(scenario_data, stakeholder),
\* called by the script once the recommendations are shown; the roadmap is
\* dated by the present reading of the clock.
GenerateRoadmap ==
    /\ "generate_recommendations" \in returned
    /\ "generate_roadmap" \notin returned
    /\ roadmap' = generate_roadmap(scenario_data, Get(scenario_data, "stakeholder", <<>>),
                                   [now |-> clock, days |-> 0])
    /\ returned' = returned \cup {"generate_roadmap"}
    /\ UNCHANGED <<scenario_data, assessed_data, assessment, grid_analysis,
                   recommendations, compared_data, comparison, engine, earlier>>

\* The button "Compare with Baseline Scenario", below the roadmap.
CompareWithBaseline ==
    /\ "generate_roadmap" \in returned
    /\ CompareWith(get_baseline_scenario)

\* PolicyDecisionEngine(rwanda_context): a new engine starts with an empty
\* list; the file of the previous engine stays on disk.
NewEngine ==
    /\ scenarios # <<>>
    /\ scenarios' = <<>>
    /\ UNCHANGED <<caller, saved_file, clock, earlier>>

\* The script of app.py runs again with the widgets set to data: the results
\* of the previous run are dropped.  The first completed run is remembered
\* if nothing had been saved when it ended.
SetScenario ==
    /\ \E data \in EngineScenarios : scenario_data' = data
    /\ assessed_data' = NoResult
    /\ assessment' = NoResult
    /\ grid_analysis' = NoResult
    /\ recommendations' = <<>>
    /\ roadmap' = NoResult
    /\ compared_data' = NoResult
    /\ comparison' = NoResult
    /\ returned' = {}
    /\ earlier' =
          IF /\ earlier = NoResult
             /\ clock = 0
             /\ {"assess_scenario", "calculate_grid_impact", "generate_recommendations"}
                    \subseteq returned
          THEN [data |-> scenario_data,
                assessment |-> assessment,
                grid_analysis |-> grid_analysis,
                recommendations |-> recommendations]
          ELSE earlier
    /\ UNCHANGED engine

Init == InitOver(EngineScenarios)

Next ==
    \/ SetScenario
    \/ AssessScenario
    \/ CalculateGridImpact
    \/ GenerateRecommendations
    \/ GenerateRoadmap
    \/ CompareWithBaseline
    \/ SaveScenario
    \/ NewEngine

Spec == Init /\ [][Next]_vars

(***************************************************************************)
(* The calculators on their own: each specification starts from a scenario *)
(* of a family of inputs and applies the operations to it.                 *)
(***************************************************************************)
\* Fleet sizes: every small one, and the multiples of 25 that cross the
\* pressure thresholds with few chargers.
MaxSmallEvs == 12

MaxEvSteps == 9

EvValues ==
    (0..MaxSmallEvs) \cup {25 * k : k \in 1..MaxEvSteps} \cup {12500, 260000}

\* Charger counts: none, negative, few, and counts whose tenths tie.
MaxChargers == 4

PcValues ==
    ((0 - 2)..MaxChargers) \cup {20, 156, 300}

AssessScenarios ==
    {With(ScenarioB, [total_evs |-> n, public_chargers |-> pc]) :
        n \in EvValues, pc \in PcValues} \cup {ScenarioA}

SpecAssess == InitOver(AssessScenarios) /\ [][AssessScenario]_vars

\* Pairs of scenarios whose ratios lie on both sides of every threshold:
\* fleets of 50 * k and 50 * k + 1 vehicles on one or two chargers.
MaxPairSteps == 4

PairScenarios ==
    {With(ScenarioB, [total_evs |-> n, public_chargers |-> pc]) :
        n \in {0} \cup {50 * k + j : k \in 1..MaxPairSteps, j \in {0, 1}},
        pc \in {1, 2}}

ComparePair ==
    \E other \in PairScenarios : CompareWith(other)

SpecPairs == InitOver(PairScenarios) /\ [][ComparePair]_vars

\* Scenarios of the grid impact calculator: fleets from none to the largest
\* the sidebar offers, with those whose demand falls next to the 230 MW
\* capacity or on the 30 MW and 50 MW levels of the risk, at every peak share
\* in steps of PeakStep, for every charger mix of the sidebar and for none.
PeakStep == 5

MaxPeakSteps == 20

GridScenarios ==
    {With(ScenarioB, [total_evs |-> n, peak_charging_share |-> PeakStep * k, charger_types |-> kind]) :
        n \in {0, 1000, 12000, 12500, 20000, 26000, 28889, 30953, 32500, 32501, 52000, 260000, 300000},
        k \in 0..MaxPeakSteps,
        kind \in {"10kW Focus", "Balanced", "20kW Focus", "Fast-Charge Heavy"}}
      \cup {Without(With(ScenarioB, [total_evs |-> n, peak_charging_share |-> PeakStep * k]),
                     {"charger_types"}) :
                n \in {12000, 20000, 26000, 260000}, k \in 0..MaxPeakSteps}

SpecGrid == InitOver(GridScenarios) /\ [][CalculateGridImpact]_vars

\* Scenarios of the recommendation rules: three situations (the worked
\* scenarios A and B and one of high pressure and high grid risk), each with
\* every band of the two-wheeler share, three policy priorities, two
\* investment postures and stakeholders that match all, one or none of the checks.
AllStakeholders ==
    REG \o <<" ">> \o Kigali \o <<" ">> \o Developer \o <<" ">> \o MININFRA

CityOfKigali ==
    <<"C", "i", "t", "y", " ", "o", "f", " ">> \o Kigali

ResearchInstitution ==
    <<"R", "e", "s", "e", "a", "r", "c", "h", " ", "I", "n", "s", "t", "i", "t", "u", "t", "i", "o", "n">>

HighPressureScenario ==
    With(ScenarioB, [total_evs |-> 27000, peak_charging_share |-> 60, charger_types |-> "20kW Focus"])

RecScenarios ==
    {With(base, [two_wheeler_share |-> share,
                 policy_priority |-> policy,
                 investment_appetite |-> posture[1],
                 regulatory_flexibility |-> posture[2],
                 stakeholder |-> stakeholder]) :
        base \in {ScenarioA, ScenarioB, HighPressureScenario},
        share \in {30, 50, 70},
        policy \in {"Balanced Growth", "Climate Impact Maximization", "Grid Stability & Resilience"},
        posture \in {<<"Conservative", "Traditional">>, <<"Aggressive", "Innovation-Friendly">>},
        stakeholder \in {NationalGovernment, AllStakeholders, CityOfKigali, ResearchInstitution}}

\* The caller passes the assessment of another scenario than scenario_data.
AssessOther ==
    \E data \in {ScenarioA, ScenarioB} : AssessFor(data)

SpecRecs ==
    InitOver(RecScenarios) /\ [][AssessScenario \/ AssessOther \/ GenerateRecommendations]_vars

\* Scenarios to compare: the worked scenarios A and B, and the baseline with
\* a fleet 10000 and 10001 larger (with chargers that keep or change the
\* pressure), a higher peak share, and a bolder investment posture.
CompareScenarios ==
    {ScenarioA, ScenarioB,
     With(ScenarioB, [total_evs |-> 22500]),
     With(ScenarioB, [total_evs |-> 22500, public_chargers |-> 250]),
     With(ScenarioB, [total_evs |-> 22501, public_chargers |-> 250]),
     With(ScenarioB, [peak_charging_share |-> 80]),
     With(ScenarioB, [investment_appetite |-> "Aggressive"])}

CompareAny ==
    \E other \in CompareScenarios : CompareWith(other)

SpecCompare ==
    InitOver(CompareScenarios)
        /\ [][AssessScenario \/ GenerateRecommendations \/ CompareAny]_vars

\* Scenarios that leave out optional keys: the worked scenarios, made to
\* fire the rules that read those keys, with every subset of them left out.
OptionalKeys ==
    {"charger_types", "v2g_adoption", "solar_integration", "urban_rural_split"}

DefaultScenarios ==
    {Without(base, absent) :
        base \in {With(ScenarioA, [policy_priority |-> "Climate Impact Maximization",
                                   urban_rural_split |-> <<90, 10>>]),
                  With(HighPressureScenario, [policy_priority |-> "Climate Impact Maximization",
                                              urban_rural_split |-> <<60, 40>>,
                                              v2g_adoption |-> 40,
                                              solar_integration |-> 60]),
                  ScenarioB},
        absent \in SUBSET OptionalKeys}

SpecDefaults ==
    InitOver(DefaultScenarios)
        /\ [][AssessScenario \/ CalculateGridImpact \/ GenerateRecommendations]_vars

\* Scenarios of the scores: the baseline at three levels of pressure, with
\* peak shares on both sides of the base thresholds, every kind of charger
\* and V2G and solar shares from none to all; and scenarios of the priority,
\* whose four scores tie or lead in turn, with an investment appetite that
\* is conservative, bold, not one of the menu, or absent; every pairing of
\* investment appetite and regulatory flexibility, recognized or not, present
\* or not; the climate priority at solar shares up to all; and fleets whose
\* ratio lies just above 150 and 200 and rounds onto them or past them.
PriorityScenarios ==
    {With(ScenarioB, [total_evs |-> n,
                      peak_charging_share |-> peak,
                      two_wheeler_share |-> share,
                      investment_appetite |-> appetite]) :
        n \in {1000, 15600, 24960, 36000},
        peak \in {30, 50, 80},
        share \in {20, 52},
        appetite \in {"Conservative", "Moderate", "Aggressive", "Transformative", "Unknown"}}

ScoreScenarios ==
    {With(ScenarioB, [total_evs |-> n,
                      peak_charging_share |-> peak,
                      charger_types |-> kind,
                      v2g_adoption |-> v2g,
                      solar_integration |-> solar]) :
        n \in {1000, 18000, 36000},
        peak \in {30, 50, 51, 71},
        kind \in {"Balanced", "10kW Focus", "20kW Focus", "Fast-Charge Heavy"},
        v2g \in {0, 5, 50, 100},
        solar \in {0, 15, 100}}
      \cup PriorityScenarios
      \cup {Without(data, {"investment_appetite"}) : data \in PriorityScenarios}
      \cup {Without(With(ScenarioB, [investment_appetite |-> appetite,
                                     regulatory_flexibility |-> flexibility]), absent) :
                appetite \in {"Conservative", "Moderate", "Aggressive", "Transformative", "Unknown"},
                flexibility \in {"Traditional", "Adaptive", "Innovation-Friendly",
                                 "Sandbox Approach", "Unknown"},
                absent \in SUBSET {"investment_appetite", "regulatory_flexibility"}}
      \cup {With(ScenarioB, [policy_priority |-> "Climate Impact Maximization",
                             solar_integration |-> solar]) :
                solar \in {0, 30, 80, 90, 100}}
      \cup {With(ScenarioB, [total_evs |-> n, public_chargers |-> 60]) :
                n \in {9001, 9004, 12001, 12004}}

SpecScores ==
    InitOver(ScoreScenarios)
        /\ [][AssessScenario \/ GenerateRecommendations \/ GenerateRoadmap]_vars

(***************************************************************************)
(* Properties of assess_scenario                                           *)
(***************************************************************************)
\* t tenths is a nearest multiple of 0.1 to n / d (either one at a tie).
NearestTenths(t, n, d) ==
    2 * Abs(10 * n - t * d) <= d

\* x is n / d rounded to one decimal, for n >= 0 and d > 0.
IsRoundedRatio(x, n, d) ==
    \E t \in {(10 * n) \div d, (10 * n) \div d + 1} :
        NearestTenths(t, n, d) /\ x = IntDiv(t, 10)

\* C1: for every scenario, also with public_chargers zero or negative,
\* assess_scenario returns without a division by zero, and its
\* ev_to_charger_ratio is total_evs / max(public_chargers, 1) rounded to one
\* decimal.
RatioIsRoundedQuotient ==
    "assess_scenario" \in returned =>
        /\ ~Raised(assessment)
        /\ IsRoundedRatio(assessment["ev_to_charger_ratio"],
                          assessed_data["total_evs"],
                          IF assessed_data["public_chargers"] >= 1
                          THEN assessed_data["public_chargers"] ELSE 1)

\* A scenario without chargers has been assessed: the ratio is the fleet size.
RatioWithoutChargers ==
    /\ "assess_scenario" \in returned
    /\ assessed_data["public_chargers"] = 0
    /\ assessed_data["total_evs"] = 7
    /\ ~Raised(assessment)
    /\ assessment["ev_to_charger_ratio"] = FFromInt(7)

\* The place of a level among Low < Medium < Medium-High < High < Critical.
PressureOrdinal(level) ==
    CASE level = "Low" -> 1
      [] level = "Medium" -> 2
      [] level = "Medium-High" -> 3
      [] level = "High" -> 4
      [] level = "Critical" -> 5

\* The bucket of the ratio n / d: above 200, 150, 100, 50, or none of them.
PressureBucket(n, d) ==
    IF n > 200 * d THEN 5
    ELSE IF n > 150 * d THEN 4
    ELSE IF n > 100 * d THEN 3
    ELSE IF n > 50 * d THEN 2
    ELSE 1

ChargersOrOne(data) ==
    IF data["public_chargers"] >= 1 THEN data["public_chargers"] ELSE 1

\* The assessed pressure and score of data are those of the bucket of its
\* ratio: scores 0.2, 0.4, 0.6, 0.8, 1.0 from the lowest bucket up.
InBucket(data, assessed) ==
    /\ PressureOrdinal(assessed["infrastructure_pressure"])
           = PressureBucket(data["total_evs"], ChargersOrOne(data))
    /\ assessed["infrastructure_score"]
           = IntDiv(2 * PressureBucket(data["total_evs"], ChargersOrOne(data)), 10)

\* C2: the infrastructure pressure and score are those of the bucket of the
\* ratio total_evs / max(public_chargers, 1) (above 200, 150, 100, 50, else;
\* scores 1.0, 0.8, 0.6, 0.4, 0.2), and of two scenarios the one with the
\* smaller or equal ratio has the smaller or equal pressure and score.
PressureIsMonotone ==
    "compare_scenarios" \in returned =>
        /\ ~Raised(comparison)
        /\ InBucket(scenario_data, comparison["scenario1_assessment"])
        /\ InBucket(compared_data, comparison["scenario2_assessment"])
        /\ (scenario_data["total_evs"] * ChargersOrOne(compared_data)
                <= compared_data["total_evs"] * ChargersOrOne(scenario_data)
            => /\ PressureOrdinal(comparison["scenario1_assessment"]["infrastructure_pressure"])
                    <= PressureOrdinal(comparison["scenario2_assessment"]["infrastructure_pressure"])
               /\ FCmp(comparison["scenario1_assessment"]["infrastructure_score"],
                       comparison["scenario2_assessment"]["infrastructure_score"]) <= 0)

\* Two scenarios have been assessed whose ratios 100.5 and 151 lie on the two
\* sides of the threshold 150.
PressureRisesAcrossThreshold ==
    /\ "compare_scenarios" \in returned
    /\ scenario_data["total_evs"] = 201
    /\ scenario_data["public_chargers"] = 2
    /\ compared_data["total_evs"] = 151
    /\ compared_data["public_chargers"] = 1
    /\ comparison["scenario1_assessment"]["infrastructure_pressure"] = "Medium-High"
    /\ comparison["scenario2_assessment"]["infrastructure_pressure"] = "High"

\* C8: for Scenario A, assess_scenario returns ev_to_charger_ratio 866.7,
\* infrastructure_pressure Critical, grid_score 0.7, grid_risk Critical,
\* financial_score 0.2 and financial_viability Poor.
ScenarioAValues ==
    ("assess_scenario" \in returned /\ assessed_data = ScenarioA) =>
        /\ assessment["ev_to_charger_ratio"] = Lit(8667, 10)
        /\ assessment["infrastructure_pressure"] = "Critical"
        /\ assessment["grid_score"] = Lit(7, 10)
        /\ assessment["grid_risk"] = "Critical"
        /\ assessment["financial_score"] = Lit(2, 10)
        /\ assessment["financial_viability"] = "Poor"

\* Scenario A has been assessed: its urgency is the highest.
ScenarioAAssessed ==
    /\ "assess_scenario" \in returned
    /\ assessed_data = ScenarioA
    /\ assessment["urgency_level"] = "Immediate"

\* C9 as claimed: for the baseline Scenario B, assess_scenario returns
\* grid_score 0.3 - 0.01 - 0.0225 = 0.2675 and grid_risk Medium.
ScenarioBGridScoreFromAboveHalf ==
    ("assess_scenario" \in returned /\ assessed_data = ScenarioB) =>
        /\ assessment["grid_score"] = Lit(2675, 10000)
        /\ assessment["grid_risk"] = "Medium"

\* C9: for the baseline Scenario B, whose peak share of 50 is not above 50,
\* assess_scenario returns grid_score 0.2 - 0.01 - 0.0225 = 0.1675 and
\* grid_risk Medium.
ScenarioBGridScore ==
    ("assess_scenario" \in returned /\ assessed_data = ScenarioB) =>
        /\ assessment["grid_score"] = Lit(1675, 10000)
        /\ assessment["grid_risk"] = "Medium"

\* Scenario B has been assessed: 12500 vehicles on 156 chargers, 80.1 each.
ScenarioBAssessed ==
    /\ "assess_scenario" \in returned
    /\ assessed_data = ScenarioB
    /\ assessment["ev_to_charger_ratio"] = Lit(801, 10)
    /\ FLt(assessment["grid_score"], Lit(2, 10))

\* C10 as claimed: for the baseline Scenario B, assess_scenario returns
\* financial_score 0.5 and financial_viability Good.
ScenarioBViabilityGood ==
    ("assess_scenario" \in returned /\ assessed_data = ScenarioB) =>
        /\ assessment["financial_score"] = Lit(5, 10)
        /\ assessment["financial_viability"] = "Good"

\* C10: for the baseline Scenario B, assess_scenario returns financial_score
\* 0.5, which is not above 0.5, and financial_viability Moderate.
ScenarioBViabilityModerate ==
    ("assess_scenario" \in returned /\ assessed_data = ScenarioB) =>
        /\ assessment["financial_score"] = Lit(5, 10)
        /\ assessment["financial_viability"] = "Moderate"

\* Scenario B has been assessed with its Moderate appetite and Adaptive regulation.
ScenarioBFinanceAssessed ==
    /\ "assess_scenario" \in returned
    /\ assessed_data = ScenarioB
    /\ assessed_data["investment_appetite"] = "Moderate"
    /\ assessed_data["regulatory_flexibility"] = "Adaptive"
    /\ FCmp(assessment["financial_score"], IntDiv(1, 2)) = 0

(***************************************************************************)
(* Properties of calculate_grid_impact                                     *)
(***************************************************************************)
\* C3: for every scenario with total_evs >= 0 and a peak share of 0 to 100,
\* the grid_capacity_utilization that calculate_grid_impact returns lies
\* between 0 and 100, also when the demand exceeds the capacity.
UtilizationInRange ==
    "calculate_grid_impact" \in returned =>
        /\ FCmp(grid_analysis["grid_capacity_utilization"], FFromInt(0)) >= 0
        /\ FCmp(grid_analysis["grid_capacity_utilization"], FFromInt(100)) <= 0

\* The impact of a scenario whose demand is far above the capacity.
UtilizationCapped ==
    /\ "calculate_grid_impact" \in returned
    /\ scenario_data["total_evs"] = 300000
    /\ scenario_data["peak_charging_share"] = 100
    /\ grid_analysis["is_grid_overloaded"]
    /\ FGt(grid_analysis["total_demand_mw"], FFromInt(1000))
    /\ grid_analysis["grid_capacity_utilization"] = FFromInt(100)

\* The kW per vehicle of the scenario's charger mix.
PowerOf(data) ==
    IF "charger_types" \notin DOMAIN data THEN 10
    ELSE IF data["charger_types"] = "10kW Focus" THEN 7
    ELSE IF data["charger_types"] = "20kW Focus" THEN 12
    ELSE 10

\* C4 as claimed: is_grid_overloaded is true exactly when the total_demand_mw
\* of the same record is greater than 230.
OverloadedIffReportedDemandAbove ==
    "calculate_grid_impact" \in returned =>
        (grid_analysis["is_grid_overloaded"]
            <=> FGt(grid_analysis["total_demand_mw"], FFromInt(230)))

\* C4: is_grid_overloaded is true exactly when the demand before rounding,
\* 100 + total_evs * power * peak_charging_share / 200000, is greater than
\* 230; a total_demand_mw above 230 implies it, and it implies a
\* total_demand_mw of at least 230.
OverloadedIffDemandAbove ==
    "calculate_grid_impact" \in returned =>
        /\ grid_analysis["is_grid_overloaded"]
              <=> scenario_data["total_evs"] * PowerOf(scenario_data)
                      * scenario_data["peak_charging_share"] > 26000000
        /\ FGt(grid_analysis["total_demand_mw"], FFromInt(230))
              => grid_analysis["is_grid_overloaded"]
        /\ grid_analysis["is_grid_overloaded"]
              => FCmp(grid_analysis["total_demand_mw"], FFromInt(230)) >= 0

\* A demand of 230.0005 MW: overloaded, and reported as 230.0.
OverloadedAtReportedCapacity ==
    /\ "calculate_grid_impact" \in returned
    /\ scenario_data["total_evs"] = 28889
    /\ scenario_data["peak_charging_share"] = 90
    /\ scenario_data["charger_types"] = "Balanced"
    /\ grid_analysis["is_grid_overloaded"]
    /\ grid_analysis["total_demand_mw"] = FFromInt(230)

(***************************************************************************)
(* Properties of generate_recommendations                                  *)
(***************************************************************************)
\* The rank of a priority under {Critical: 4, High: 3, Medium: 2, Low: 1}.
PriorityRank(priority) ==
    CASE priority = "Critical" -> 4
      [] priority = "High" -> 3
      [] priority = "Medium" -> 2
      [] priority = "Low" -> 1

\* C5: the list generate_recommendations returns is sorted by priority,
\* highest first: of two adjacent records the first does not rank below
\* the second.
SortedByPriority ==
    "generate_recommendations" \in returned =>
        \A i \in 1..(Len(recommendations) - 1) :
            PriorityRank(recommendations[i]["priority"])
                >= PriorityRank(recommendations[i + 1]["priority"])

\* The record of the urgency rule, appended last, has been moved up to the
\* second place of a list of five or more.
UrgencyRecordMovedUp ==
    /\ "generate_recommendations" \in returned
    /\ Len(recommendations) >= 5
    /\ recommendations[1]["title"] = "EMERGENCY: Massive Infrastructure Deployment Required"
    /\ recommendations[2]["title"] = "Rapid Response Team"
    /\ recommendations[Len(recommendations)]["priority"] = "Medium"

\* The place of the rule that appends the record of this title, in the order
\* the rules are evaluated.
RuleIndex(title) ==
    CASE title \in {"EMERGENCY: Massive Infrastructure Deployment Required",
                    "Accelerate Charging Infrastructure Rollout",
                    "Expand Charging Network"} -> 1
      [] title \in {"CRITICAL: Immediate Grid Protection Measures",
                    "Implement Smart Grid Solutions",
                    "Proactive Grid Planning"} -> 2
      [] title \in {"E-Moto Priority Strategy",
                    "Integrated Two-Wheeler Planning",
                    "Mainstream EV Focus"} -> 3
      [] title \in {"Renewable Charging Strategy", "Grid Resilience Framework"} -> 4
      [] title = "Advanced PPP Framework" -> 5
      [] title = "Policy Coordination Framework" -> 6
      [] title = "Grid Modernization Plan" -> 7
      [] title = "Investment Readiness Assessment" -> 8
      [] title = "Urban Mobility Integration" -> 9
      [] title = "Rapid Response Team" -> 10

\* C6: two records of equal priority stand in the order their rules are
\* evaluated: infrastructure, grid, two-wheeler, policy priority, financial,
\* the stakeholder checks (Government/MININFRA, REG/Utility, Private
\* Investor/Developer, Kigali), urgency.
EqualPriorityInRuleOrder ==
    "generate_recommendations" \in returned =>
        \A i, j \in 1..Len(recommendations) :
            (i < j /\ recommendations[i]["priority"] = recommendations[j]["priority"])
                => RuleIndex(recommendations[i]["title"]) < RuleIndex(recommendations[j]["title"])

\* A list in which the High records of the stakeholder checks follow the High
\* record of the grid rule, all ahead of the Medium record of the two-wheeler rule.
EqualPriorityRecordsKept ==
    /\ "generate_recommendations" \in returned
    /\ \E i \in 1..(Len(recommendations) - 3) :
          /\ recommendations[i]["title"] = "Implement Smart Grid Solutions"
          /\ recommendations[i + 1]["title"] = "Policy Coordination Framework"
          /\ recommendations[i + 2]["title"] = "Grid Modernization Plan"
          /\ recommendations[i + 3]["title"] = "Integrated Two-Wheeler Planning"

ScenarioBGridImpact ==
    ("calculate_grid_impact" \in returned /\ scenario_data = ScenarioB) =>
        /\ grid_analysis["additional_demand_mw"] = Lit(3125, 100)
        /\ grid_analysis["total_demand_mw"] = Lit(13125, 100)
        /\ grid_analysis["grid_capacity_utilization"] = Lit(571, 10)
        /\ grid_analysis["is_grid_overloaded"] = FALSE

\* The grid impact of Scenario B has been calculated: a Medium risk level.
ScenarioBGridImpactCalculated ==
    /\ "calculate_grid_impact" \in returned
    /\ scenario_data = ScenarioB
    /\ grid_analysis["grid_risk_level"] = "Medium"

(***************************************************************************)
(* Properties of compare_scenarios                                         *)
(***************************************************************************)
\* The number of entries of a differences list that were built from text.
EntriesOf(entries, text) ==
    Cardinality({i \in 1..Len(entries) : entries[i].text = text})

\* 1 if the condition holds and 0 if not.
OneIf(condition) ==
    IF condition THEN 1 ELSE 0

\* The entries of the held comparison are those the two scenarios call for.
EntriesAsCalledFor(entries, assessment1, assessment2) ==
    /\ EntriesOf(entries, "EV fleet difference: {:,} vehicles")
          = OneIf(Abs(scenario_data["total_evs"] - compared_data["total_evs"]) > 10000)
    /\ EntriesOf(entries, "Infrastructure pressure: {} vs {}")
          = OneIf(assessment1["infrastructure_pressure"] # assessment2["infrastructure_pressure"])
    /\ EntriesOf(entries, "Grid risk: {} vs {}")
          = OneIf(assessment1["grid_risk"] # assessment2["grid_risk"])
    /\ EntriesOf(entries, "Financial viability: {} vs {}")
          = OneIf(assessment1["financial_viability"] # assessment2["financial_viability"])
    /\ Len(entries)
          = OneIf(Abs(scenario_data["total_evs"] - compared_data["total_evs"]) > 10000)
            + OneIf(assessment1["infrastructure_pressure"] # assessment2["infrastructure_pressure"])
            + OneIf(assessment1["grid_risk"] # assessment2["grid_risk"])
            + OneIf(assessment1["financial_viability"] # assessment2["financial_viability"])

\* The differences compare_scenarios reports for (Scenario A, Scenario B).
DifferencesOfAAndB ==
    <<Fmt("EV fleet difference: {:,} vehicles", <<247500>>),
      Fmt("Infrastructure pressure: {} vs {}", <<"Critical", "Medium">>),
      Fmt("Grid risk: {} vs {}", <<"Critical", "Medium">>),
      Fmt("Financial viability: {} vs {}", <<"Poor", "Moderate">>)>>

\* C12: compare_scenarios reports a fleet-size entry exactly when the fleets
\* differ by more than 10000, one entry for each of infrastructure_pressure,
\* grid_risk and financial_viability exactly when the two assessments differ
\* in it, and the difference of the lengths of the two recommendation lists;
\* for (Scenario A, Scenario B) it reports all four entries.
ComparisonReportsDifferences ==
    "compare_scenarios" \in returned =>
        /\ comparison["scenario2_assessment"] = assess_scenario(compared_data)
        /\ "assess_scenario" \in returned => comparison["scenario1_assessment"] = assessment
        /\ EntriesAsCalledFor(comparison["differences"],
                              comparison["scenario1_assessment"],
                              comparison["scenario2_assessment"])
        /\ "generate_recommendations" \in returned =>
              comparison["recommendation_differences"]
                  = Len(recommendations)
                      - Len(generate_recommendations(compared_data,
                                                     comparison["scenario2_assessment"]))
        /\ (scenario_data = ScenarioA /\ compared_data = ScenarioB) =>
              comparison["differences"] = DifferencesOfAAndB

\* Scenario A has been compared with Scenario B, after its own assessment
\* and recommendations: the two lists differ in length.
ScenarioAComparedWithB ==
    /\ {"assess_scenario", "generate_recommendations", "compare_scenarios"} \subseteq returned
    /\ scenario_data = ScenarioA
    /\ compared_data = ScenarioB
    /\ Len(comparison["differences"]) = 4
    /\ comparison["recommendation_differences"] # 0

(***************************************************************************)
(* Scenarios without their optional keys                                   *)
(***************************************************************************)
\* The documented defaults of the optional keys.
DocumentedDefaults ==
    [charger_types |-> "Balanced",
     v2g_adoption |-> 20,
     solar_integration |-> 30,
     urban_rural_split |-> <<70, 30>>]

\* The scenario with its absent optional keys set to the documented defaults.
Defaulted(data) ==
    With(DocumentedDefaults, data)

\* C13: for a scenario with any subset of charger_types, v2g_adoption,
\* solar_integration and urban_rural_split absent, assess_scenario,
\* generate_recommendations and calculate_grid_impact raise no error and
\* return what they return for the scenario with the absent keys set to
\* Balanced, 20, 30 and (70, 30).
AbsentMeansDefault ==
    /\ "assess_scenario" \in returned =>
          /\ ~Raised(assessment)
          /\ assessment = assess_scenario(Defaulted(scenario_data))
    /\ "calculate_grid_impact" \in returned =>
          grid_analysis = calculate_grid_impact(Defaulted(scenario_data))
    /\ "generate_recommendations" \in returned =>
          recommendations = generate_recommendations(Defaulted(scenario_data), assessment)

\* The three operations have returned for a scenario without any of the
\* optional keys, whose infrastructure and grid rules fire.
AllOptionalKeysAbsent ==
    /\ {"assess_scenario", "calculate_grid_impact", "generate_recommendations"} \subseteq returned
    /\ DOMAIN scenario_data \cap OptionalKeys = {}
    /\ Defaulted(scenario_data) # scenario_data
    /\ assessment["infrastructure_pressure"] = "Critical"
    /\ assessment["grid_risk"] = "Medium-High"
    /\ \E i \in 1..Len(recommendations) :
          recommendations[i]["category"] = "Climate & Environment"

\* A step in which one of the five operations returns to the caller.
CallReturns ==
    returned' # returned /\ returned' # {}

\* The step leaves the scenario, a held assessment and the engine as they were.
InputsAndEngineKept ==
    /\ scenario_data' = scenario_data
    /\ "assess_scenario" \in returned =>
          assessment' = assessment /\ assessed_data' = assessed_data
    /\ scenarios' = scenarios
    /\ saved_file' = saved_file

\* The results the step hands out are those of a run on an engine that has
\* not been used: the remembered ones for the remembered scenario, and for
\* compare_scenarios and generate_roadmap the assessment the caller holds.
ResultsAsAlone ==
    /\ (earlier # NoResult /\ earlier["data"] = scenario_data) =>
          /\ "assess_scenario" \in returned' => assessment' = earlier["assessment"]
          /\ "calculate_grid_impact" \in returned' =>
                grid_analysis' = earlier["grid_analysis"]
          /\ "generate_recommendations" \in returned' =>
                recommendations' = earlier["recommendations"]
    /\ "compare_scenarios" \in returned' =>
          comparison'["scenario1_assessment"] = assessment'
    /\ "generate_roadmap" \in returned' =>
          (roadmap'[1]["End"].days = 90)
              <=> (assessment'["urgency_level"] \in {"Immediate", "Urgent"})

CommonFields ==
    {"title", "description", "timeframe", "category", "priority"}

RuleFields ==
    {"impact", "stakeholders", "estimated_cost", "kpi"}

\* The titles of the records _get_stakeholder_recommendations appends.
StakeholderTitles ==
    {"Policy Coordination Framework", "Grid Modernization Plan",
     "Investment Readiness Assessment", "Urban Mobility Integration"}

\* C15 as claimed: every record generate_recommendations returns carries
\* title, description, timeframe, impact, category, priority, stakeholders,
\* estimated_cost and kpi.
EveryRecordHasNineFields ==
    "generate_recommendations" \in returned =>
        \A i \in 1..Len(recommendations) :
            (CommonFields \cup RuleFields) \subseteq DOMAIN recommendations[i]

\* C15: every record generate_recommendations returns carries title,
\* description, timeframe, category and priority; every record but the
\* stakeholder-specific ones also carries impact, stakeholders,
\* estimated_cost and kpi, and the stakeholder-specific ones carry none of
\* these four.
RecordsHaveTheirFields ==
    "generate_recommendations" \in returned =>
        \A i \in 1..Len(recommendations) :
            /\ CommonFields \subseteq DOMAIN recommendations[i]
            /\ IF recommendations[i]["title"] \in StakeholderTitles
               THEN RuleFields \cap DOMAIN recommendations[i] = {}
               ELSE RuleFields \subseteq DOMAIN recommendations[i]

\* A returned list with records of the rules, the urgency record among them,
\* and all four stakeholder-specific records.
RuleAndStakeholderRecords ==
    /\ "generate_recommendations" \in returned
    /\ \A title \in StakeholderTitles \cup {"Rapid Response Team"} :
          \E i \in 1..Len(recommendations) : recommendations[i]["title"] = title

(***************************************************************************)
(* Properties of save_scenario                                             *)
(***************************************************************************)
\* The bundle is one of save_scenario for the caller's scenario and
\* assessment, stamped with the clock's reading.
IsBundleOfCall(bundle, tick) ==
    /\ DOMAIN bundle = {"name", "timestamp", "data", "assessment", "recommendations"}
    /\ bundle["name"] \in ScenarioNames
    /\ bundle["timestamp"] = isoformat(tick)
    /\ bundle["data"] = scenario_data
    /\ bundle["assessment"] = assessment
    /\ "generate_recommendations" \in returned =>
          bundle["recommendations"] = recommendations

\* C16: each save_scenario call, whether its write succeeds or fails, leaves
\* the list with exactly one more bundle {name, timestamp, data, assessment,
\* recommendations}, behind the earlier bundles, which are unchanged; it
\* raises nothing to the caller; no other step adds to the list.
SaveAppendsOneBundle ==
    [][/\ clock' # clock =>
             /\ Len(scenarios') = Len(scenarios) + 1
             /\ SubSeq(scenarios', 1, Len(scenarios)) = scenarios
             /\ IsBundleOfCall(scenarios'[Len(scenarios')], clock')
             /\ caller' = caller
       /\ clock' = clock => (scenarios' = scenarios \/ scenarios' = <<>>)]_vars

\* Two saves on one engine, the second of them with a failed write: both
\* bundles are in the list, in call order.
TwoBundlesAfterFailedWrite ==
    /\ Len(scenarios) = 2
    /\ saved_file = PartialFile
    /\ scenarios[1]["timestamp"] = isoformat(1)
    /\ scenarios[2]["timestamp"] = isoformat(2)

\* The list is the start of the longer list.
IsProperPrefix(list, longer) ==
    /\ Len(list) < Len(longer)
    /\ SubSeq(longer, 1, Len(list)) = list

\* C17: the persisted document is append-only: a successful save_scenario on
\* a storage that holds a written document, by the same engine or by a new
\* one, leaves every bundle of that document in place, unchanged and before
\* the bundle it adds.
DocumentIsAppendOnly ==
    [][(saved_file.file = "written" /\ saved_file'.file = "written"
            /\ saved_file' # saved_file) =>
          IsProperPrefix(saved_file.document, saved_file'.document)]_vars

(***************************************************************************)
(* Properties of the scores                                                *)
(***************************************************************************)
\* The four comparison scores of the claim, each times 200 * max(chargers, 1),
\* which makes them integers: ratio/200, peak_charging_share/100, finance
\* and (100 - two_wheeler_share)/100, with finance 0.8 for Aggressive and
\* Transformative and 0.5 for every other or absent appetite.
ClaimedPriorityScores(data) ==
    << <<"infrastructure", data["total_evs"]>>,
       <<"grid", 2 * data["peak_charging_share"] * ChargersOrOne(data)>>,
       <<"finance",
         IF "investment_appetite" \in DOMAIN data
               /\ data["investment_appetite"] \in {"Aggressive", "Transformative"}
         THEN 160 * ChargersOrOne(data) ELSE 100 * ChargersOrOne(data)>>,
       <<"social", 2 * (100 - data["two_wheeler_share"]) * ChargersOrOne(data)>> >>

\* The first key of the scores that attains their maximum.
FirstMaximum(scores) ==
    scores[CHOOSE i \in 1..Len(scores) :
              /\ \A j \in 1..Len(scores) : scores[j][2] <= scores[i][2]
              /\ \A j \in 1..(i - 1) : scores[j][2] < scores[i][2]][1]

\* C18: recommendation_priority is the first key, in the order
\* infrastructure, grid, finance, social, that attains the maximum of the
\* four comparison scores, where finance is 0.8 exactly for an Aggressive or
\* Transformative investment_appetite and 0.5 for every other value, an
\* absent or unrecognized one included.
PriorityIsFirstMaximum ==
    "assess_scenario" \in returned =>
        assessment["recommendation_priority"]
            = FirstMaximum(ClaimedPriorityScores(assessed_data))

\* The larger of the two scores of an assessment.
LargerScore(assessed) ==
    IF FCmp(assessed["grid_score"], assessed["infrastructure_score"]) > 0
    THEN assessed["grid_score"]
    ELSE assessed["infrastructure_score"]

\* The urgency the thresholds 0.8, 0.6, 0.4 and 0.2 give to m.
UrgencyAbove(m) ==
    CASE FCmp(m, Lit(8, 10)) > 0 -> "Immediate"
      [] FCmp(m, Lit(8, 10)) <= 0 /\ FCmp(m, Lit(6, 10)) > 0 -> "Urgent"
      [] FCmp(m, Lit(6, 10)) <= 0 /\ FCmp(m, Lit(4, 10)) > 0 -> "High Priority"
      [] FCmp(m, Lit(4, 10)) <= 0 /\ FCmp(m, Lit(2, 10)) > 0 -> "Medium Priority"
      [] OTHER -> "Low Priority"

\* C19: urgency_level is determined by m = max(infrastructure_score,
\* grid_score): Immediate if m > 0.8, Urgent if m > 0.6, High Priority if
\* m > 0.4, Medium Priority if m > 0.2, otherwise Low Priority, also when
\* grid_score is negative.
UrgencyFromLargerScore ==
    "assess_scenario" \in returned =>
        assessment["urgency_level"] = UrgencyAbove(LargerScore(assessment))

\* An assessment whose grid score leads: it is above the infrastructure
\* score and lifts the urgency to Urgent under low pressure.
GridScoreLeadsUrgency ==
    /\ "assess_scenario" \in returned
    /\ assessment["infrastructure_pressure"] = "Low"
    /\ FGt(assessment["grid_score"], assessment["infrastructure_score"])
    /\ assessment["urgency_level"] = "Urgent"

\* The parts of the grid score in tenths: the base of the peak share and
\* the penalty of the charger type.
BaseTenths(data) ==
    IF data["peak_charging_share"] > 70 THEN 4
    ELSE IF data["peak_charging_share"] > 50 THEN 3
    ELSE IF data["peak_charging_share"] > 30 THEN 2
    ELSE 1

PenaltyTenths(data) ==
    CASE data["charger_types"] = "20kW Focus" -> 2
      [] data["charger_types"] = "Fast-Charge Heavy" -> 3
      [] OTHER -> 0

\* base + penalty - (v2g_adoption/100)*0.2 - (solar_integration/100)*0.15,
\* evaluated in floating point from left to right.
ComposedGridScore(data) ==
    FSub(FSub(FAdd(Lit(BaseTenths(data), 10), Lit(PenaltyTenths(data), 10)),
              FMul(IntDiv(data["v2g_adoption"], 100), Lit(2, 10))),
         FMul(IntDiv(data["solar_integration"], 100), Lit(15, 100)))

\* The same sum in exact arithmetic, in units of 1/20000.
ExactGridScore(data) ==
    2000 * (BaseTenths(data) + PenaltyTenths(data))
        - 40 * data["v2g_adoption"] - 30 * data["solar_integration"]

\* The risk level the thresholds 0.6, 0.45, 0.3 and 0.15 give to the score.
RiskAbove(score) ==
    CASE FCmp(score, Lit(6, 10)) > 0 -> "Critical"
      [] FCmp(score, Lit(6, 10)) <= 0 /\ FCmp(score, Lit(45, 100)) > 0 -> "High"
      [] FCmp(score, Lit(45, 100)) <= 0 /\ FCmp(score, Lit(3, 10)) > 0 -> "Medium-High"
      [] FCmp(score, Lit(3, 10)) <= 0 /\ FCmp(score, Lit(15, 100)) > 0 -> "Medium"
      [] OTHER -> "Low"

\* C20: grid_score equals base + charger penalty - (v2g_adoption/100)*0.2
\* - (solar_integration/100)*0.15, with base 0.4, 0.3, 0.2, 0.1 for a peak
\* share above 70, 50, 30 or not, and penalty 0.2 for 20kW Focus, 0.3 for
\* Fast-Charge Heavy and 0 for any other value; grid_risk is Critical, High,
\* Medium-High, Medium for a score above 0.6, 0.45, 0.3, 0.15 and Low
\* otherwise, so every negative score maps to Low.
GridScoreIsComposed ==
    "assess_scenario" \in returned =>
        /\ assessment["grid_score"] = ComposedGridScore(assessed_data)
        /\ FGt(assessment["grid_score"], Lit(ExactGridScore(assessed_data) - 1, 20000))
        /\ FLt(assessment["grid_score"], Lit(ExactGridScore(assessed_data) + 1, 20000))
        /\ assessment["grid_risk"] = RiskAbove(assessment["grid_score"])
        /\ FLt(assessment["grid_score"], FZero) => assessment["grid_risk"] = "Low"

\* An assessment with a negative grid score, for a charger type that
\* carries no penalty.
NegativeGridScore ==
    /\ "assess_scenario" \in returned
    /\ assessed_data["charger_types"] = "10kW Focus"
    /\ FLt(assessment["grid_score"], Lit(0 - 2, 10))
    /\ assessment["grid_risk"] = "Low"

(***************************************************************************)
(* Properties of the rules of generate_recommendations                     *)
(***************************************************************************)
\* The number of the four stakeholder checks that the string matches.
StakeholderChecksMatched(stakeholder) ==
    OneIf(Contains(Government, stakeholder) \/ Contains(MININFRA, stakeholder))
        + OneIf(Contains(REG, stakeholder) \/ Contains(Utility, stakeholder))
        + OneIf(Contains(PrivateInvestor, stakeholder) \/ Contains(Developer, stakeholder))
        + OneIf(Contains(Kigali, stakeholder))

\* The number of rules that fire for a scenario and the assessment handed in.
RulesFired(data, given) ==
    OneIf(given["infrastructure_pressure"] \in {"High", "Critical"})
        + OneIf(given["grid_risk"] \in {"Critical", "High", "Medium-High"})
        + 1
        + OneIf(Get(data, "policy_priority", "Balanced Growth")
                    \in {"Climate Impact Maximization", "Grid Stability & Resilience"})
        + OneIf(Get(data, "investment_appetite", "Moderate") \in {"Aggressive", "Transformative"}
                /\ Get(data, "regulatory_flexibility", "Adaptive")
                       \in {"Innovation-Friendly", "Sandbox Approach"})
        + StakeholderChecksMatched(Get(data, "stakeholder", <<>>))
        + OneIf(given["urgency_level"] \in {"Immediate", "Urgent"})

\* C21: the list returned by generate_recommendations holds one record for
\* each rule that fires: one for high or critical pressure, one for a grid
\* risk of Medium-High or more, one for the two-wheeler rule, one for the
\* climate or grid policy priority, one for a bold investment posture under
\* flexible regulation, one for each stakeholder check that matches and one
\* for an immediate or urgent level; so the list is never empty.
RecordCountIsRulesFired ==
    "generate_recommendations" \in returned =>
        /\ Len(recommendations) = RulesFired(scenario_data, assessment)
        /\ Len(recommendations) >= 1

\* Every rule fires and every stakeholder check matches: ten records.
EveryRuleFired ==
    /\ "generate_recommendations" \in returned
    /\ RulesFired(scenario_data, assessment) = 10
    /\ Len(recommendations) = 10

(***************************************************************************)
(* Properties of the financial score                                       *)
(***************************************************************************)
\* The tenths the two tables give: 2, 5, 7, 9 along each menu, and 5 for a
\* value that is absent or not on the menu.
AppetiteTenths(data) ==
    IF "investment_appetite" \notin DOMAIN data THEN 5
    ELSE IF data["investment_appetite"] = "Conservative" THEN 2
    ELSE IF data["investment_appetite"] = "Aggressive" THEN 7
    ELSE IF data["investment_appetite"] = "Transformative" THEN 9
    ELSE 5

FlexibilityTenths(data) ==
    IF "regulatory_flexibility" \notin DOMAIN data THEN 5
    ELSE IF data["regulatory_flexibility"] = "Traditional" THEN 2
    ELSE IF data["regulatory_flexibility"] = "Innovation-Friendly" THEN 7
    ELSE IF data["regulatory_flexibility"] = "Sandbox Approach" THEN 9
    ELSE 5

\* The viability the thresholds 0.7, 0.5 and 0.3 give to the score.
ViabilityAbove(score) ==
    CASE FCmp(score, Lit(7, 10)) > 0 -> "Excellent"
      [] FCmp(score, Lit(7, 10)) <= 0 /\ FCmp(score, Lit(5, 10)) > 0 -> "Good"
      [] FCmp(score, Lit(5, 10)) <= 0 /\ FCmp(score, Lit(3, 10)) > 0 -> "Moderate"
      [] OTHER -> "Poor"

\* C22: financial_score is the average of the investment_appetite score
\* (0.2, 0.5, 0.7, 0.9 along the menu) and the regulatory_flexibility score
\* (0.2, 0.5, 0.7, 0.9 along the menu), an absent or unrecognized value
\* scoring 0.5, so it lies in [0, 1]; financial_viability is Excellent, Good
\* or Moderate for a score above 0.7, 0.5 or 0.3 and Poor otherwise.
FinancialScoreIsAverage ==
    "assess_scenario" \in returned =>
        /\ assessment["financial_score"]
             = FDiv(FAdd(Lit(AppetiteTenths(assessed_data), 10),
                         Lit(FlexibilityTenths(assessed_data), 10)),
                    FFromInt(2))
        /\ FGt(assessment["financial_score"],
               Lit(1000 * (AppetiteTenths(assessed_data) + FlexibilityTenths(assessed_data)) - 1, 20000))
        /\ FLt(assessment["financial_score"],
               Lit(1000 * (AppetiteTenths(assessed_data) + FlexibilityTenths(assessed_data)) + 1, 20000))
        /\ FCmp(assessment["financial_score"], FZero) >= 0
        /\ FCmp(assessment["financial_score"], FFromInt(1)) <= 0
        /\ assessment["financial_viability"] = ViabilityAbove(assessment["financial_score"])

\* An assessment of a scenario without investment_appetite and with a
\* regulatory flexibility that is not on the menu: the score is 0.5, and
\* being not above 0.5 it is graded Moderate.
AbsentAndUnrecognizedScored ==
    /\ "assess_scenario" \in returned
    /\ "investment_appetite" \notin DOMAIN assessed_data
    /\ "regulatory_flexibility" \in DOMAIN assessed_data
    /\ assessed_data["regulatory_flexibility"] = "Unknown"
    /\ assessment["financial_score"] = Lit(5, 10)
    /\ assessment["financial_viability"] = "Moderate"

(***************************************************************************)
(* Properties of the demand of calculate_grid_impact                       *)
(***************************************************************************)
\* total_evs * power * peak_charging_share: the additional demand in units
\* of 1/200000 MW.
DemandUnits(data) ==
    data["total_evs"] * PowerOf(data) * data["peak_charging_share"]

\* total_evs * power * (peak_charging_share/100) / 1000 / 2 in doubles.
DemandOf(data) ==
    FDiv(FDiv(FMul(FFromInt(data["total_evs"] * PowerOf(data)),
                   IntDiv(data["peak_charging_share"], 100)),
              FFromInt(1000)),
         FFromInt(2))

\* C23: calculate_grid_impact takes power 7 for 10kW Focus, 12 for 20kW
\* Focus and 10 for any other or absent charger_types; the additional
\* demand is total_evs * power * (peak_charging_share/100) / 1000 / 2 and
\* the total demand is 100 more (both reported to two decimals); and
\* grid_risk_level is High for an additional demand above 50, Medium for
\* one above 30 and Low otherwise.
DemandAndRiskFromPower ==
    "calculate_grid_impact" \in returned =>
        /\ grid_analysis["additional_demand_mw"] = PyRound(DemandOf(scenario_data), 2)
        /\ FGt(grid_analysis["additional_demand_mw"],
               Lit((DemandUnits(scenario_data) \div 2000) - 1, 100))
        /\ FLt(grid_analysis["additional_demand_mw"],
               Lit((DemandUnits(scenario_data) \div 2000) + 2, 100))
        /\ grid_analysis["total_demand_mw"]
             = PyRound(FAdd(FFromInt(100), DemandOf(scenario_data)), 2)
        /\ FGt(grid_analysis["total_demand_mw"],
               Lit(10000 + (DemandUnits(scenario_data) \div 2000) - 1, 100))
        /\ FLt(grid_analysis["total_demand_mw"],
               Lit(10000 + (DemandUnits(scenario_data) \div 2000) + 2, 100))
        /\ grid_analysis["grid_risk_level"]
             = IF DemandUnits(scenario_data) > 10000000 THEN "High"
               ELSE IF DemandUnits(scenario_data) > 6000000 THEN "Medium"
               ELSE "Low"

\* A scenario without charger_types whose additional demand is exactly
\* 50 MW at power 10: the risk is Medium.
AbsentMixAtFiftyMegawatts ==
    /\ "calculate_grid_impact" \in returned
    /\ "charger_types" \notin DOMAIN scenario_data
    /\ grid_analysis["additional_demand_mw"] = FFromInt(50)
    /\ grid_analysis["total_demand_mw"] = FFromInt(150)
    /\ grid_analysis["grid_risk_level"] = "Medium"

(***************************************************************************)
(* Properties of generate_roadmap                                          *)
(***************************************************************************)
\* The days from the Start of a phase to its End.
DaysOf(phase) ==
    phase["End"].days - phase["Start"].days

\* The days from the End of one phase to the Start of the next.
DaysBetween(phase, next) ==
    next["Start"].days - phase["End"].days

\* All the dates of the roadmap are counted from one reading of the clock.
DatedFromOneReading(phases) ==
    \A i \in 1..Len(phases) :
        /\ phases[i]["Start"].now = phases[1]["Start"].now
        /\ phases[i]["End"].now = phases[1]["Start"].now

\* C24: generate_roadmap returns three phases, Foundation, Scaling and
\* Optimization in this order; Phase 1 lasts 90 days and Phase 2 270 days
\* when the scenario's urgency_level is Immediate or Urgent, and 180 and
\* 360 days for every other level.
ThreePhasesByUrgency ==
    ("generate_roadmap" \in returned /\ assessed_data = scenario_data) =>
        /\ Len(roadmap) = 3
        /\ roadmap[1]["Phase"] = "Phase 1: Foundation"
        /\ roadmap[2]["Phase"] = "Phase 2: Scaling"
        /\ roadmap[3]["Phase"] = "Phase 3: Optimization"
        /\ DatedFromOneReading(roadmap)
        /\ IF assessment["urgency_level"] \in {"Immediate", "Urgent"}
           THEN DaysOf(roadmap[1]) = 90 /\ DaysOf(roadmap[2]) = 270
           ELSE DaysOf(roadmap[1]) = 180 /\ DaysOf(roadmap[2]) = 360

\* A roadmap of a scenario whose level is Urgent, with the short phases.
UrgentRoadmap ==
    /\ "generate_roadmap" \in returned
    /\ assessed_data = scenario_data
    /\ assessment["urgency_level"] = "Urgent"
    /\ DaysOf(roadmap[1]) = 90

\* C27: in every roadmap each phase starts strictly before it ends, Phase 2
\* starts one day after Phase 1 ends, Phase 3 starts one day after Phase 2
\* ends, and Phase 3 ends 1080 days after Phase 1 starts; the phases do not
\* overlap.
PhasesFollowWithoutOverlap ==
    "generate_roadmap" \in returned =>
        /\ DatedFromOneReading(roadmap)
        /\ \A i \in 1..3 : DaysOf(roadmap[i]) > 0
        /\ DaysBetween(roadmap[1], roadmap[2]) = 1
        /\ DaysBetween(roadmap[2], roadmap[3]) = 1
        /\ roadmap[3]["End"].days - roadmap[1]["Start"].days = 1080
        /\ \A i, j \in 1..3 : i < j => roadmap[i]["End"].days < roadmap[j]["Start"].days

\* A roadmap of the long branch: its third phase starts on day 542.
LongRoadmap ==
    /\ "generate_roadmap" \in returned
    /\ Len(roadmap) = 3
    /\ roadmap[3]["Start"].days - roadmap[1]["Start"].days = 542
    /\ DaysOf(roadmap[3]) = 538

(***************************************************************************)
(* Properties that relate the records to the assessment                    *)
(***************************************************************************)
\* The titles of the three severity bands of the infrastructure rule.
BandTitles ==
    {"EMERGENCY: Massive Infrastructure Deployment Required",
     "Accelerate Charging Infrastructure Rollout",
     "Expand Charging Network"}

\* The record r is of the band with the given title, priority and cost per vehicle.
IsOfBand(r, data, title, priority, per_vehicle) ==
    /\ r["title"] = title
    /\ r["priority"] = priority
    /\ r["estimated_cost"] = Fmt("${:,.0f}", <<data["total_evs"] * per_vehicle>>)

\* C25: with the assessment that assess_scenario produced for the same
\* scenario, the band of the infrastructure record agrees with
\* infrastructure_pressure: Critical gives the EMERGENCY band (priority
\* Critical, total_evs * 1500), High gives the Accelerate band (priority
\* High, total_evs * 1200), and the third band is never selected.
BandAgreesWithPressure ==
    ("generate_recommendations" \in returned /\ assessed_data = scenario_data) =>
        \A i \in 1..Len(recommendations) :
            recommendations[i]["title"] \in BandTitles =>
                /\ assessment["infrastructure_pressure"] = "Critical"
                     => IsOfBand(recommendations[i], scenario_data,
                                 "EMERGENCY: Massive Infrastructure Deployment Required",
                                 "Critical", 1500)
                /\ assessment["infrastructure_pressure"] = "High"
                     => IsOfBand(recommendations[i], scenario_data,
                                 "Accelerate Charging Infrastructure Rollout",
                                 "High", 1200)
                /\ recommendations[i]["title"] # "Expand Charging Network"

\* The list holds a record with the given title.
HasRecord(list, title) ==
    \E i \in 1..Len(list) : list[i]["title"] = title

\* C26: for an assessment produced by assess_scenario, the Rapid Response
\* Team record is generated exactly when infrastructure_pressure is High or
\* Critical or grid_risk is Critical; a scenario graded no worse than
\* Medium-High pressure and High grid risk does not get it.
RapidResponseIffSevere ==
    ("generate_recommendations" \in returned /\ assessed_data = scenario_data) =>
        /\ HasRecord(recommendations, "Rapid Response Team")
             <=> \/ assessment["infrastructure_pressure"] \in {"High", "Critical"}
                 \/ assessment["grid_risk"] = "Critical"
        /\ (/\ assessment["infrastructure_pressure"] \in {"Low", "Medium", "Medium-High"}
            /\ assessment["grid_risk"] \in {"Low", "Medium", "Medium-High", "High"})
             => ~HasRecord(recommendations, "Rapid Response Team")

\* Medium-High pressure with a High grid risk, and no Rapid Response Team.
NoTeamBelowSevere ==
    /\ "generate_recommendations" \in returned
    /\ assessed_data = scenario_data
    /\ assessment["infrastructure_pressure"] = "Medium-High"
    /\ assessment["grid_risk"] = "High"
    /\ ~HasRecord(recommendations, "Rapid Response Team")

\* Both financial inputs are present and on their menus.
RecognizedPosture(data) ==
    /\ "investment_appetite" \in DOMAIN data
    /\ data["investment_appetite"] \in {"Conservative", "Moderate", "Aggressive", "Transformative"}
    /\ "regulatory_flexibility" \in DOMAIN data
    /\ data["regulatory_flexibility"]
         \in {"Traditional", "Adaptive", "Innovation-Friendly", "Sandbox Approach"}

\* C28: for a scenario with recognized investment_appetite and
\* regulatory_flexibility, the Advanced PPP Framework record is generated
\* only when financial_viability is Good or Excellent, and always when it
\* is Excellent.
PartnershipFollowsViability ==
    (/\ "generate_recommendations" \in returned
     /\ assessed_data = scenario_data
     /\ RecognizedPosture(scenario_data)) =>
        /\ HasRecord(recommendations, "Advanced PPP Framework")
             => assessment["financial_viability"] \in {"Good", "Excellent"}
        /\ assessment["financial_viability"] = "Excellent"
             => HasRecord(recommendations, "Advanced PPP Framework")

\* The record under a viability that is Good and no more: Aggressive
\* appetite under Innovation-Friendly regulation scores 0.7.
PartnershipAtGood ==
    /\ "generate_recommendations" \in returned
    /\ assessed_data = scenario_data
    /\ RecognizedPosture(scenario_data)
    /\ assessment["financial_viability"] = "Good"
    /\ HasRecord(recommendations, "Advanced PPP Framework")

\* C29: for policy_priority Climate Impact Maximization and a
\* solar_integration from 0 to 100, the renewable-charging target in the
\* kpi of the record, max(50, solar_integration + 20), lies in 50..100.
RenewableTargetWithinHundred ==
    (/\ "generate_recommendations" \in returned
     /\ scenario_data["policy_priority"] = "Climate Impact Maximization"
     /\ scenario_data["solar_integration"] \in 0..100) =>
        /\ HasRecord(recommendations, "Renewable Charging Strategy")
        /\ \A i \in 1..Len(recommendations) :
              recommendations[i]["title"] = "Renewable Charging Strategy" =>
                  /\ recommendations[i]["kpi"]["text"] = "Achieve {}% renewable charging by 2030"
                  /\ recommendations[i]["kpi"]["args"][1] >= 50
                  /\ recommendations[i]["kpi"]["args"][1] <= 100

\* The charger power mixes in the order of the sidebar's slider.
MixOrder ==
    <<"10kW Focus", "Balanced", "20kW Focus", "Fast-Charge Heavy">>

\* The rank of a grid_risk_level.
RiskLevelRank(level) ==
    CASE level = "Low" -> 0
      [] level = "Medium" -> 1
      [] level = "High" -> 2

\* C30: for fixed total_evs and peak_charging_share, the additional demand
\* and the grid_risk_level of calculate_grid_impact do not decrease along
\* the charger power mix order 10kW Focus, Balanced, 20kW Focus,
\* Fast-Charge Heavy, the order in which assess_scenario raises its
\* charger-type penalty.
DemandRisesAlongMix ==
    ("calculate_grid_impact" \in returned /\ "charger_types" \in DOMAIN scenario_data) =>
        \A i, j \in 1..Len(MixOrder) :
            (i < j /\ scenario_data["charger_types"] = MixOrder[i]) =>
                /\ FCmp(grid_analysis["additional_demand_mw"],
                        calculate_grid_impact(With(scenario_data, [charger_types |-> MixOrder[j]]))
                            ["additional_demand_mw"]) <= 0
                /\ RiskLevelRank(grid_analysis["grid_risk_level"])
                     <= RiskLevelRank(calculate_grid_impact(
                            With(scenario_data, [charger_types |-> MixOrder[j]]))["grid_risk_level"])

====
